---------------------------- MODULE Spec2Model ----------------------------
(***************************************************************************)
(* aws-auto-refresh: the credential cache (cache-manager), the refresh     *)
(* client (token-refresher) and their callers, as a state machine.         *)
(*                                                                         *)
(* Time is in milliseconds.  A process is one asynchronous invocation      *)
(* chain of the single-threaded program (one call of writeTokenCache, one  *)
(* call of refreshTokenWithRetry, ...); an action is the code that runs    *)
(* between two suspension points (await) of such a chain.                  *)
(***************************************************************************)
EXTENDS Integers, Sequences, FiniteSets, TLC

VARIABLES
  now,                \* Date.now()
  pc,                 \* pc[p]: position of process p
  files,              \* the cache directory: file name -> content
  tmp,                \* tmp[p]: the temporary file of p's atomic write
  wNew,               \* wNew[p]: the newTokens argument of p's writeTokenCache
  wPath,              \* wPath[p]: cachePath resolved by p's writeTokenCache
  wCur,               \* wCur[p]: currentCache as re-read by p's writeTokenCache
  wPre,               \* wPre[p]: the directory when p's write was called (history)
  readerSaw,          \* the latest read by a concurrent reader: its outcome, and
                      \* where the processes were at that moment
  refreshThreshold,   \* config.refreshThreshold (ms)
  dueIn,              \* the expiresAt handed to shouldRefresh
  dueOut,             \* what getTimeUntilExpiry / shouldRefresh returned
  retryBackoffSeconds,\* config.retryBackoffSeconds
  endpoint,           \* the responses the remote endpoint may give in this run
  lastRequestTime,    \* token-refresher: let lastRequestTime
  abortController,    \* token-refresher: let abortController (whose request it is)
  aborted,            \* the requests whose AbortController has been aborted
  creds,              \* creds[p]: credentials argument of refreshTokenWithRetry
  maxAttempts,        \* maxAttempts[p]: maxAttempts argument
  attempt,            \* attempt[p]: loop variable of refreshTokenWithRetry
  wake,               \* wake[p]: when p's pending sleep() timer is due
  lastError,          \* lastError[p]: let lastError / the error thrown
  result,             \* result[p]: the value refreshTokenWithRetry returned
  hist,               \* hist[p]: one entry per exchange attempt of p (history)
  sleeps,             \* sleeps[p]: the backoff waits p asked of sleep() (history)
  calledAt,           \* calledAt[p]: when p last called refreshToken (history)
  failedAt,           \* failedAt[p]: when p's last attempt failed (history)
  requests,           \* the requests sent to the endpoint: by whom, when (history)
  cleanupSaw,         \* the calls whose request was outstanding at a cleanup() (history)
  isShuttingDown,     \* index: let isShuttingDown
  monitorInterval,    \* index: let monitorInterval (the armed timer, or none)
  consecutiveFailures,\* index: let consecutiveFailures
  maxRetryAttempts,   \* config.maxRetryAttempts
  starter,            \* position of startMonitoring()
  nextFire,           \* when the interval timer fires next
  report,             \* report[p]: how p's cycle ended, and what it reported (history)
  stops,              \* what each stopMonitoring() call found and left (history)
  warned,             \* the warnings of the consecutive-failure check (history)
  logins,             \* how often the login tool has rewritten the cache (history)
  payload,            \* the argument of a call of a pure function
  callOut,            \* what that call returned or threw
  configFile,         \* ~/.aws/config: whether it exists, its content, its mtimeMs
  cachedAwsConfig,    \* cache-manager: let cachedAwsConfig
  configFileMtime,    \* cache-manager: let configFileMtime
  rdPc,               \* rdPc[r]: position of call r of readAwsConfig()
  configContent,      \* configContent[r]: const configContent of call r
  currentMtime,       \* currentMtime[r]: const currentMtime of call r
  rdOut,              \* rdOut[r]: what call r returned, and from where (history)
  strayTimers,        \* the armed interval timers monitorInterval does not hold:
                      \* when each fires next
  starts,             \* the calls of startMonitoring() so far (history)
  respondedAt         \* when refreshToken last built tokens from a response: its
                      \* Date.now() in the expiresAt it computed (history)

vars == << now, pc, files, tmp, wNew, wPath, wCur, wPre, readerSaw,
           refreshThreshold, dueIn, dueOut, retryBackoffSeconds, endpoint,
           lastRequestTime, abortController, aborted, creds, maxAttempts,
           attempt, wake, lastError, result, hist, sleeps, calledAt, failedAt,
           requests, cleanupSaw, isShuttingDown, monitorInterval,
           consecutiveFailures, maxRetryAttempts, starter, nextFire, report,
           stops, warned, logins, payload, callOut, configFile, cachedAwsConfig,
           configFileMtime, rdPc, configContent, currentMtime, rdOut,
           strayTimers, starts, respondedAt >>

writeVars == << files, tmp, wNew, wPath, wCur, wPre, readerSaw >>
dueVars   == << refreshThreshold, dueIn, dueOut >>
retryVars == << retryBackoffSeconds, endpoint, lastRequestTime, abortController,
                aborted, creds, maxAttempts, attempt, wake, lastError, result,
                hist, sleeps, calledAt, failedAt, requests >>
daemonVars == << isShuttingDown, monitorInterval, consecutiveFailures,
                 maxRetryAttempts, starter, nextFire, report, stops, warned >>
configVars == << configFile, cachedAwsConfig, configFileMtime, rdPc,
                 configContent, currentMtime, rdOut >>
timerVars == << strayTimers, starts >>
envVars == << logins, payload, callOut, configVars, timerVars, respondedAt >>
schedVars == << daemonVars, cleanupSaw, envVars >>

---------------------------------------------------------------------------
(* Bounds of the model *)

ClockStart == 10000     \* Date.now() when the run starts
MaxClock   == 22500     \* the clock stops advancing here
TickMs     == 2500      \* granularity of the clock
MaxAttemptsArg == 3     \* largest caller-supplied maxAttempts
CheckIntervalMs == 5000 \* config.refreshCheckInterval of the runs
MaxStops == 2           \* stopMonitoring() is called at most this often
MaxRunning == 1         \* a timer cycle starts while fewer cycles than this run
MaxLongClock == 70000   \* the clock of the long runs stops advancing here
MaxLogins == 2          \* the login tool rewrites or removes the cache this often
MaxEditClock == 15000   \* ~/.aws/config is not edited after this time
MaxStarts == 2          \* startMonitoring() is called at most this often

Procs == {"c1", "c2"}

---------------------------------------------------------------------------
(* JavaScript values *)

Missing   == "<no such key>"      \* the object has no such property
Undefined == "<undefined>"        \* the property exists and is undefined
Empty     == ""                   \* the empty string

\* JavaScript truthiness of a string-or-undefined value: !!v
Truthy(v) == v \notin {Missing, Undefined, Empty}

\* obj.f: reading a property that is not there yields undefined
JsGet(v) == IF v = Missing THEN Undefined ELSE v

\* new Date(s).getTime() of a string that is no date is NaN
InvalidDate == -1
\* cacheData.expiresAt of a record without the key
NoDate == -2

StringFields == {"accessToken", "refreshToken", "clientId", "clientSecret",
                 "region", "startUrl", "registrationExpiresAt"}
Fields == StringFields \cup {"expiresAt"}

\* an object property that holds a value
Defined(obj, f) ==
  IF f = "expiresAt" THEN obj[f] # NoDate ELSE obj[f] \notin {Missing, Undefined}

\* JSON.stringify(obj): the text holds the properties that have a value;
\* a property whose value is undefined is left out
JsonStringify(obj) == [f \in {g \in Fields : Defined(obj, g)} |-> obj[f]]

\* JSON.parse(text): an object with the properties of the text
JsonParse(text) ==
  [f \in Fields |->
     IF f \in DOMAIN text THEN text[f]
     ELSE IF f = "expiresAt" THEN NoDate ELSE Missing]

---------------------------------------------------------------------------
(* The cache directory *)

StartUrl == "https://sso.example/start"
OtherUrl == "https://other.example/start"

\* the file named by sha1(startUrl), and the other .json files of the directory
Names == {"hash", "alt", "alt2"}

NoRecord == [accessToken |-> Missing, refreshToken |-> Missing,
             clientId |-> Missing, clientSecret |-> Missing,
             expiresAt |-> NoDate, region |-> Missing, startUrl |-> Missing,
             registrationExpiresAt |-> Missing]

\* a file is absent, or holds a partially written text, or a complete text
\* (the text of a file is what JSON.stringify produced)
NoText == JsonStringify(NoRecord)
NoFile == [state |-> "absent", text |-> NoText]
Complete(t) == [state |-> "complete", text |-> t]
Partial(t)  == [state |-> "partial", text |-> t]

\* fsPromises.readFile + JSON.parse: a record, or the reason it failed
ParseFile(f) ==
  IF f.state = "absent" THEN [ok |-> FALSE, code |-> "ENOENT", rec |-> NoRecord]
  ELSE IF f.state = "partial"
       THEN [ok |-> FALSE, code |-> "SyntaxError", rec |-> NoRecord]
       ELSE [ok |-> TRUE, code |-> "none", rec |-> JsonParse(f.text)]

\* a scan that takes any readable file of the directory
ScanAnyReadable(dir) == {n \in Names : ParseFile(dir[n]).ok}

\* getCacheFilePath: the computed name if the file exists, else the first
\* readable .json file whose startUrl matches, else not found
ScanMatch(dir) ==
  {n \in Names : ParseFile(dir[n]).ok /\ ParseFile(dir[n]).rec.startUrl = StartUrl}

GetCacheFilePaths(dir) ==
  IF dir["hash"].state # "absent" THEN {"hash"} ELSE ScanMatch(dir)


\* readTokenCache: the record, or the failure
RequiredStrings == {"accessToken", "refreshToken", "clientId", "clientSecret"}

MissingRequired(rec) ==
  {f \in RequiredStrings : ~Truthy(rec[f])}
    \cup (IF rec.expiresAt = NoDate THEN {"expiresAt"} ELSE {})

ReadAt(dir, path) ==
  LET r == ParseFile(dir[path]) IN
  IF ~r.ok THEN [ok |-> FALSE, error |-> r.code, rec |-> NoRecord]
  ELSE IF MissingRequired(r.rec) # {}
       THEN [ok |-> FALSE, error |-> "missing required fields", rec |-> NoRecord]
  ELSE IF r.rec.expiresAt = InvalidDate
       THEN [ok |-> FALSE, error |-> "invalid expiry date", rec |-> NoRecord]
  ELSE [ok |-> TRUE, error |-> "none", rec |-> r.rec]

ReadTokenCache(dir) ==
  IF GetCacheFilePaths(dir) = {}
  THEN {[ok |-> FALSE, error |-> "Cache file not found", rec |-> NoRecord]}
  ELSE {ReadAt(dir, path) : path \in GetCacheFilePaths(dir)}

---------------------------------------------------------------------------
(* writeTokenCache *)

NoTokens == [accessToken |-> Missing, refreshToken |-> Missing,
             expiresAt |-> NoDate, expiresIn |-> 0]

\* a merge that takes the refresh token of the argument whatever it is
MergeAlwaysRefreshToken(cur, new) ==
  [cur EXCEPT !.accessToken = JsGet(new.accessToken),
              !.expiresAt = new.expiresAt,
              !.refreshToken = JsGet(new.refreshToken)]

\* updatedCache = {...currentCache, accessToken, expiresAt,
\*                 ...(newTokens.refreshToken && {refreshToken})}
MergeTokens(cur, new) ==
  [cur EXCEPT !.accessToken = JsGet(new.accessToken),
              !.expiresAt = new.expiresAt,
              !.refreshToken = IF Truthy(new.refreshToken)
                               THEN new.refreshToken ELSE @]

\* const cachePath = await getCacheFilePath()
WriteResolve(p) ==
  /\ pc[p] = "w_call"
  /\ wPre' = [wPre EXCEPT ![p] = files]
  /\ \/ /\ GetCacheFilePaths(files) = {}
        /\ pc' = [pc EXCEPT ![p] = "w_failed"]
        /\ UNCHANGED wPath
     \/ \E path \in GetCacheFilePaths(files) :
          /\ wPath' = [wPath EXCEPT ![p] = path]
          /\ pc' = [pc EXCEPT ![p] = "w_resolved"]
  /\ UNCHANGED << now, files, tmp, wNew, wCur, readerSaw, dueVars, retryVars >>
  /\ UNCHANGED schedVars

\* const currentCache = JSON.parse(await fsPromises.readFile(cachePath))
WriteReadCurrent(p) ==
  /\ pc[p] = "w_resolved"
  /\ LET r == ParseFile(files[wPath[p]]) IN
       IF r.ok
       THEN /\ wCur' = [wCur EXCEPT ![p] = r.rec]
            /\ pc' = [pc EXCEPT ![p] = "w_merged"]
       ELSE /\ pc' = [pc EXCEPT ![p] = "w_failed"]
            /\ UNCHANGED wCur
  /\ UNCHANGED << now, files, tmp, wNew, wPath, wPre, readerSaw, dueVars, retryVars >>
  /\ UNCHANGED schedVars

\* the text handed to writeFileAtomic
UpdatedText(p) == JsonStringify(MergeTokens(wCur[p], wNew[p]))

\* a write that puts the text straight into the file at the final path
WriteInPlaceOpen(p) ==
  /\ pc[p] = "w_merged"
  /\ files' = [files EXCEPT ![wPath[p]] = Partial(UpdatedText(p))]
  /\ tmp' = [tmp EXCEPT ![p] = Partial(UpdatedText(p))]
  /\ pc' = [pc EXCEPT ![p] = "w_tmp_open"]
  /\ UNCHANGED << now, wNew, wPath, wCur, wPre, readerSaw, dueVars, retryVars >>
  /\ UNCHANGED schedVars

\* writeFileAtomic, step 1: the temporary file is created and its content
\* is being written
WriteTmpOpen(p) ==
  /\ pc[p] = "w_merged"
  /\ tmp' = [tmp EXCEPT ![p] = Partial(UpdatedText(p))]
  /\ pc' = [pc EXCEPT ![p] = "w_tmp_open"]
  /\ UNCHANGED << now, files, wNew, wPath, wCur, wPre, readerSaw, dueVars, retryVars >>
  /\ UNCHANGED schedVars

\* writeFileAtomic, step 2: the content is fully written and flushed
WriteTmpFinish(p) ==
  /\ pc[p] = "w_tmp_open"
  /\ tmp' = [tmp EXCEPT ![p] = Complete(UpdatedText(p))]
  /\ pc' = [pc EXCEPT ![p] = "w_tmp_done"]
  /\ UNCHANGED << now, files, wNew, wPath, wCur, wPre, readerSaw, dueVars, retryVars >>
  /\ UNCHANGED schedVars

\* writeFileAtomic, step 3: the temporary file is renamed onto the cache path
WriteRename(p) ==
  /\ pc[p] = "w_tmp_done"
  /\ files' = [files EXCEPT ![wPath[p]] = tmp[p]]
  /\ tmp' = [tmp EXCEPT ![p] = NoFile]
  /\ pc' = [pc EXCEPT ![p] = "w_renamed"]
  /\ UNCHANGED << now, wNew, wPath, wCur, wPre, readerSaw, dueVars, retryVars >>
  /\ UNCHANGED schedVars

\* await fsPromises.chmod(cachePath, 0o600); return true
WriteChmod(p) ==
  /\ pc[p] = "w_renamed"
  /\ pc' = [pc EXCEPT ![p] = "w_done"]
  /\ UNCHANGED << now, writeVars, dueVars, retryVars >>
  /\ UNCHANGED schedVars

\* an I/O failure of the step in progress: writeFileAtomic removes its
\* temporary file, writeTokenCache logs and rethrows
WriteIoError(p) ==
  /\ pc[p] \in {"w_resolved", "w_merged", "w_tmp_open", "w_tmp_done", "w_renamed"}
  /\ tmp' = [tmp EXCEPT ![p] = NoFile]
  /\ pc' = [pc EXCEPT ![p] = "w_failed"]
  /\ UNCHANGED << now, files, wNew, wPath, wCur, wPre, readerSaw, dueVars, retryVars >>
  /\ UNCHANGED schedVars

\* the process is killed: nothing more runs, the files stay as they are
Crash ==
  /\ \E p \in Procs : pc[p] \notin {"off", "crashed"}
  /\ pc' = [p \in Procs |-> "crashed"]
  /\ UNCHANGED << now, writeVars, dueVars, retryVars >>
  /\ UNCHANGED schedVars

\* another reader (the AWS CLI, a status command) reads the cache
ReaderRead ==
  /\ \E r \in ReadTokenCache(files) :
       readerSaw' = [saw |-> IF r.ok THEN "ok" ELSE r.error,
                     during |-> {pc[p] : p \in Procs}]
  /\ UNCHANGED << now, pc, files, tmp, wNew, wPath, wCur, wPre, dueVars, retryVars >>
  /\ UNCHANGED schedVars

---------------------------------------------------------------------------
(* token-refresher: the remote endpoint *)

MIN_REQUEST_INTERVAL_MS == 5000

None == "none"

\* What one axios.post can end in: a 2xx response with its data, an HTTP
\* error response (status, data.error), a transport error (error.code), or
\* the CanceledError of an aborted request.
Reply(name, type, status, code, at, rt, hasExp, exp) ==
  [name |-> name, type |-> type, status |-> status, code |-> code,
   accessToken |-> at, refreshToken |-> rt,
   hasExpiresIn |-> hasExp, expiresIn |-> exp]

Outcomes ==
  { Reply("ok_rotated",   "ok", 200, None, "at1", "rt1", TRUE, 3600),
    Reply("ok_same",      "ok", 200, None, "at1", Missing, TRUE, 3600),
    Reply("ok_empty_rt",  "ok", 200, None, "at1", Empty, TRUE, 3600),
    Reply("ok_no_access", "ok", 200, None, Missing, "rt1", TRUE, 3600),
    Reply("ok_no_expiry", "ok", 200, None, "at1", "rt1", FALSE, 0),
    Reply("invalid_grant",  "http", 400, "invalid_grant", Missing, Missing, FALSE, 0),
    Reply("bad_request",    "http", 400, "invalid_request", Missing, Missing, FALSE, 0),
    Reply("unauthorized",   "http", 401, "invalid_client", Missing, Missing, FALSE, 0),
    Reply("forbidden",      "http", 403, "invalid_grant", Missing, Missing, FALSE, 0),
    Reply("server_error",   "http", 500, "server_error", Missing, Missing, FALSE, 0),
    Reply("refused",  "net", 0, "ECONNREFUSED", Missing, Missing, FALSE, 0),
    Reply("dns",      "net", 0, "ENOTFOUND", Missing, Missing, FALSE, 0),
    Reply("timeout",  "net", 0, "ETIMEDOUT", Missing, Missing, FALSE, 0),
    Reply("reset",    "net", 0, "ECONNRESET", Missing, Missing, FALSE, 0),
    Reply("canceled", "canceled", 0, "ERR_CANCELED", Missing, Missing, FALSE, 0) }

OutcomeNames == {o.name : o \in Outcomes}
OutcomeOf(n) == CHOOSE o \in Outcomes : o.name = n

\* An error message, as the set of phrases the text contains
ReloginHint == "Please run: aws sso login"
NoError == [thrown |-> FALSE, defined |-> FALSE, message |-> {}]
Error(msg) == [thrown |-> TRUE, defined |-> TRUE, message |-> msg]
\* throw lastError with lastError never assigned
ThrownUndefined == [thrown |-> TRUE, defined |-> FALSE, message |-> {}]

\* getReloginErrorMessage(message)
GetReloginErrorMessage(msg) == msg \cup {ReloginHint}

\* String.prototype.toLowerCase on the phrases of the messages
ToLowerCase(ph) ==
  CASE ph = "Token refresh" -> "token refresh"
    [] ph = "Refresh token is" -> "refresh token is"
    [] ph = "Client" -> "client"
    [] ph = "OIDC API error" -> "oidc api error"
    [] ph = "Network error" -> "network error"
    [] ph = "Request timeout" -> "request timeout"
    [] ph = "Token refresh failed" -> "token refresh failed"
    [] ph = "Invalid response from OIDC endpoint" -> "invalid response from oidc endpoint"
    [] ph = "Please run: aws sso login" -> "please run: aws sso login"
    [] ph = "ECONNRESET" -> "econnreset"
    [] OTHER -> ph

\* message.includes(pattern)
Includes(message, pattern) == pattern \in message

\* the catch block of refreshToken: the error it throws for a failed request
ErrorOfFailure(o) ==
  IF o.type = "canceled"
  THEN Error({"Token refresh", "canceled due to shutdown"})
  ELSE IF o.type = "http"
  THEN IF o.status = 400 /\ o.code = "invalid_grant"
       THEN Error(GetReloginErrorMessage({"Refresh token is", "invalid or expired"}))
       ELSE IF o.status = 401
       THEN Error(GetReloginErrorMessage({"Client", "credentials are invalid"}))
       ELSE Error({"OIDC API error", o.code})
  ELSE IF o.code \in {"ECONNREFUSED", "ENOTFOUND"}
  THEN Error({"Network error"})
  ELSE IF o.code \in {"ETIMEDOUT", "ECONNABORTED"}
  THEN Error({"Request timeout"})
  ELSE Error({"Token refresh failed", o.code})

\* a validation that rejects a response only when both fields are missing
ValidResponseLax(o) ==
  Truthy(o.accessToken) \/ (o.hasExpiresIn /\ o.expiresIn # 0)

\* if (!accessToken || !expiresIn): the response passes the validation
ValidResponse(o) ==
  Truthy(o.accessToken) /\ o.hasExpiresIn /\ o.expiresIn # 0

\* the Error thrown by the validation, as rethrown by the catch block
ValidationError ==
  Error({"Token refresh failed", "Invalid response from OIDC endpoint"})

\* the refresh token of the response, taken as it is
RefreshTokenOfResponse(newRefreshToken, refreshToken) == JsGet(newRefreshToken)

\* refreshToken: newRefreshToken || refreshToken
PickRefreshToken(newRefreshToken, refreshToken) ==
  IF Truthy(newRefreshToken) THEN newRefreshToken ELSE JsGet(refreshToken)

\* tokens whose expiresAt adds the seconds of expiresIn as milliseconds
TokensOfSeconds(o, cr, t) ==
  [accessToken |-> o.accessToken,
   refreshToken |-> PickRefreshToken(o.refreshToken, cr.refreshToken),
   expiresAt |-> t + o.expiresIn,
   expiresIn |-> o.expiresIn]

\* the value refreshToken returns for a valid response received at time t
TokensOf(o, cr, t) ==
  [accessToken |-> o.accessToken,
   refreshToken |-> PickRefreshToken(o.refreshToken, cr.refreshToken),
   expiresAt |-> t + o.expiresIn * 1000,
   expiresIn |-> o.expiresIn]

NonRetryableErrors ==
  {"invalid_grant", "invalid or expired", "credentials are invalid",
   "canceled due to shutdown"}

\* a list of patterns that leaves the shutdown cancellation out
NonRetryableWithoutCancel(err) ==
  \E msg \in NonRetryableErrors \ {"canceled due to shutdown"} :
    Includes({ToLowerCase(ph) : ph \in err.message}, ToLowerCase(msg))

\* a classification that retries nothing
NonRetryableAlways(err) == TRUE

\* nonRetryableErrors.some(msg =>
\*   error.message.toLowerCase().includes(msg.toLowerCase()))
IsNonRetryable(err) ==
  \E msg \in NonRetryableErrors :
    Includes({ToLowerCase(ph) : ph \in err.message}, ToLowerCase(msg))

\* a backoff that does not grow with the attempt
BackoffConstant(k) == retryBackoffSeconds * 1000

\* config.retryBackoffSeconds * attempt, in milliseconds
BackoffMs(k) == (retryBackoffSeconds * k) * 1000

\* a loop that takes the attempt before the last for the last
IsLastAttemptEarly(k, m) == ~(k < m - 1)

\* if (attempt < maxAttempts) ... else: the last attempt failed
IsLastAttempt(k, m) == ~(k < m)

---------------------------------------------------------------------------
(* token-refresher: refreshToken and refreshTokenWithRetry *)

NoCreds == [clientId |-> Missing, clientSecret |-> Missing, refreshToken |-> Missing]

\* lastRequestTime = Date.now(); abortController = new AbortController();
\* axios.post(...): the request goes out
IssueRequest(p) ==
  /\ lastRequestTime' = now
  /\ abortController' = p
  /\ aborted' = aborted \ {p}
  /\ requests' = Append(requests, [by |-> p, at |-> now])
  /\ pc' = [pc EXCEPT ![p] = "in_flight"]
  /\ UNCHANGED wake

\* refreshToken(credentials) up to its first await: the rate limit
EnterRefreshToken(p) ==
  /\ calledAt' = [calledAt EXCEPT ![p] = now]
  /\ IF now - lastRequestTime < MIN_REQUEST_INTERVAL_MS
     THEN /\ wake' = [wake EXCEPT ![p] =
                        now + (MIN_REQUEST_INTERVAL_MS - (now - lastRequestTime))]
          /\ pc' = [pc EXCEPT ![p] = "rate_sleep"]
          /\ UNCHANGED << lastRequestTime, abortController, aborted, requests >>
     ELSE IssueRequest(p)

\* refreshTokenWithRetry(credentials, maxAttempts): the loop is entered
RetryCall(p) ==
  /\ pc[p] = "r_call"
  /\ attempt' = [attempt EXCEPT ![p] = 1]
  /\ IF 1 <= maxAttempts[p]
     THEN /\ EnterRefreshToken(p)
          /\ UNCHANGED lastError
     ELSE /\ lastError' = [lastError EXCEPT ![p] = ThrownUndefined]
          /\ pc' = [pc EXCEPT ![p] = "thrown"]
          /\ UNCHANGED << wake, lastRequestTime, abortController, aborted,
                          requests, calledAt >>
  /\ UNCHANGED << now, writeVars, dueVars, retryBackoffSeconds, endpoint, creds,
                  maxAttempts, result, hist, sleeps, failedAt >>
  /\ UNCHANGED schedVars

\* await sleep(waitTime) of the rate limit returns
RateWake(p) ==
  /\ pc[p] = "rate_sleep"
  /\ now >= wake[p]
  /\ IssueRequest(p)
  /\ UNCHANGED << now, writeVars, dueVars, retryBackoffSeconds, endpoint, creds,
                  maxAttempts, attempt, lastError, result, hist, sleeps,
                  calledAt, failedAt >>
  /\ UNCHANGED schedVars

\* the error of an attempt that did not yield tokens
FailureOf(o) == IF o.type = "ok" THEN ValidationError ELSE ErrorOfFailure(o)

\* axios.post settles: the rest of refreshToken, and of the loop body of
\* refreshTokenWithRetry up to its next await or its return / throw
Respond(p) ==
  /\ pc[p] = "in_flight"
  /\ \E n \in endpoint \cup {"canceled"} :
       LET o == OutcomeOf(n) IN
       /\ (o.type = "canceled") <=> (p \in aborted)
       /\ abortController' = None
       /\ hist' = [hist EXCEPT ![p] = Append(@, n)]
       /\ IF o.type = "ok" /\ ValidResponse(o)
          THEN /\ result' = [result EXCEPT ![p] = TokensOf(o, creds[p], now)]
               /\ respondedAt' = now
               /\ pc' = [pc EXCEPT ![p] = "returned"]
               /\ UNCHANGED << lastError, failedAt, sleeps, wake >>
          ELSE /\ lastError' = [lastError EXCEPT ![p] = FailureOf(o)]
               /\ failedAt' = [failedAt EXCEPT ![p] = now]
               /\ UNCHANGED << result, respondedAt >>
               /\ IF IsNonRetryable(FailureOf(o))
                  THEN /\ pc' = [pc EXCEPT ![p] = "thrown"]
                       /\ UNCHANGED << sleeps, wake >>
                  ELSE IF ~IsLastAttempt(attempt[p], maxAttempts[p])
                  THEN /\ sleeps' = [sleeps EXCEPT ![p] = Append(@, BackoffMs(attempt[p]))]
                       /\ wake' = [wake EXCEPT ![p] = now + BackoffMs(attempt[p])]
                       /\ pc' = [pc EXCEPT ![p] = "backoff"]
                  ELSE /\ pc' = [pc EXCEPT ![p] = "thrown"]
                       /\ UNCHANGED << sleeps, wake >>
  /\ UNCHANGED << now, writeVars, dueVars, retryBackoffSeconds, endpoint,
                  lastRequestTime, aborted, creds, maxAttempts, attempt,
                  calledAt, requests >>
  /\ UNCHANGED << daemonVars, cleanupSaw, logins, payload, callOut, configVars,
                  timerVars >>

\* a loop that does not count its turns
BackoffWakeNotCounting(p) ==
  /\ pc[p] = "backoff"
  /\ now >= wake[p]
  /\ UNCHANGED attempt
  /\ IF attempt[p] <= maxAttempts[p]
     THEN EnterRefreshToken(p)
     ELSE /\ pc' = [pc EXCEPT ![p] = "thrown"]
          /\ UNCHANGED << wake, lastRequestTime, abortController, aborted,
                          requests, calledAt >>
  /\ UNCHANGED << now, writeVars, dueVars, retryBackoffSeconds, endpoint, creds,
                  maxAttempts, lastError, result, hist, sleeps, failedAt >>
  /\ UNCHANGED schedVars

\* await sleep(backoffSeconds * 1000) returns: attempt++ and the next turn
\* of the loop
BackoffWake(p) ==
  /\ pc[p] = "backoff"
  /\ now >= wake[p]
  /\ attempt' = [attempt EXCEPT ![p] = @ + 1]
  /\ IF attempt[p] + 1 <= maxAttempts[p]
     THEN EnterRefreshToken(p)
     ELSE /\ pc' = [pc EXCEPT ![p] = "thrown"]
          /\ UNCHANGED << wake, lastRequestTime, abortController, aborted,
                          requests, calledAt >>
  /\ UNCHANGED << now, writeVars, dueVars, retryBackoffSeconds, endpoint, creds,
                  maxAttempts, lastError, result, hist, sleeps, failedAt >>
  /\ UNCHANGED schedVars

\* cleanup(): abort the request the module variable refers to
AbortInFlight ==
  /\ IF abortController # None
     THEN /\ aborted' = aborted \cup {abortController}
          /\ abortController' = None
     ELSE UNCHANGED << aborted, abortController >>
  /\ cleanupSaw' = cleanupSaw \cup {p \in Procs : pc[p] = "in_flight"}

\* cleanup() called on its own
Cleanup ==
  /\ AbortInFlight
  /\ UNCHANGED << now, pc, writeVars, dueVars, retryBackoffSeconds, endpoint,
                  lastRequestTime, creds, maxAttempts, attempt, wake, lastError,
                  result, hist, sleeps, calledAt, failedAt, requests >>
  /\ UNCHANGED << daemonVars, envVars >>

\* time passes
Tick ==
  /\ now + TickMs <= MaxClock
  /\ now' = now + TickMs
  /\ UNCHANGED << pc, writeVars, dueVars, retryVars >>
  /\ UNCHANGED schedVars

---------------------------------------------------------------------------
(* cache-manager: expiry calculations *)

\* a remaining time in seconds where milliseconds are expected
GetTimeUntilExpirySeconds(expiresAt, t) == (expiresAt - t) \div 1000

\* validateAndParseDate(expiresAt).getTime() - Date.now()
GetTimeUntilExpiry(expiresAt, t) == expiresAt - t

\* a threshold test that leaves the boundary out
ShouldRefreshStrict(expiresAt, t) ==
  GetTimeUntilExpiry(expiresAt, t) < refreshThreshold

\* a threshold test with the comparison turned round
ShouldRefreshInverted(expiresAt, t) ==
  GetTimeUntilExpiry(expiresAt, t) >= refreshThreshold

\* timeUntilExpiry <= config.refreshThreshold
ShouldRefresh(expiresAt, t) ==
  GetTimeUntilExpiry(expiresAt, t) <= refreshThreshold

NotCalled == [called |-> FALSE, at |-> 0, timeUntilExpiry |-> 0, due |-> FALSE]

\* a caller evaluates getTimeUntilExpiry(expiresAt) and shouldRefresh(expiresAt)
ShouldRefreshCall ==
  /\ dueIn \notin {NoDate, InvalidDate}
  /\ dueOut' = [called |-> TRUE, at |-> now,
                timeUntilExpiry |-> GetTimeUntilExpiry(dueIn, now),
                due |-> ShouldRefresh(dueIn, now)]
  /\ UNCHANGED << now, pc, writeVars, refreshThreshold, dueIn, retryVars >>
  /\ UNCHANGED schedVars

---------------------------------------------------------------------------
(* cache-manager: readAwsConfig() and its cache of the parsed file *)

\* the calls of readAwsConfig() that may be in progress at once
Readers == {"r1", "r2"}

\* the lines of ~/.aws/config: a section header, key = value, anything else
Header(name) == [kind |-> "header", name |-> name, key |-> None, value |-> None]
Pair(key, value) == [kind |-> "pair", name |-> None, key |-> key, value |-> value]
OtherLine == [kind |-> "other", name |-> None, key |-> None, value |-> None]

\* the loop of readAwsConfig over the lines: sections[currentSection] = {}
\* at a header, sections[currentSection][key] = value at a pair inside a section
RECURSIVE ParseLines(_, _, _)
ParseLines(lines, currentSection, sections) ==
  IF lines = << >> THEN sections
  ELSE LET line == Head(lines) IN
       IF line.kind = "header"
       THEN ParseLines(Tail(lines), line.name,
                       [n \in DOMAIN sections \cup {line.name} |->
                          IF n = line.name THEN << >> ELSE sections[n]])
       ELSE IF currentSection # None /\ line.kind = "pair"
       THEN ParseLines(Tail(lines), currentSection,
                       [sections EXCEPT ![currentSection] =
                          [k \in DOMAIN @ \cup {line.key} |->
                             IF k = line.key THEN line.value ELSE @[k]]])
       ELSE ParseLines(Tail(lines), currentSection, sections)

ParseConfig(configContent_) == ParseLines(configContent_, None, << >>)

\* null, and the values the two module variables hold otherwise
NullConfig == [isNull |-> TRUE, sections |-> << >>]
Parsed(sections) == [isNull |-> FALSE, sections |-> sections]
NullMtime == [isNull |-> TRUE, ms |-> 0]
Mtime(ms) == [isNull |-> FALSE, ms |-> ms]

NoConfigFile == [exists |-> FALSE, content |-> << >>, mtimeMs |-> 0]
NoRead == [from |-> None, why |-> None]

\* readAwsConfig() is called: fsPromises.access(configPath) is awaited
ReadAwsConfigCall(r) ==
  /\ rdPc[r] \in {"off", "done", "threw"}
  /\ rdPc' = [rdPc EXCEPT ![r] = "access"]
  /\ rdOut' = [rdOut EXCEPT ![r] = NoRead]
  /\ currentMtime' = [currentMtime EXCEPT ![r] = NullMtime]
  /\ configContent' = [configContent EXCEPT ![r] = << >>]
  /\ UNCHANGED << now, pc, writeVars, dueVars, retryVars, daemonVars, cleanupSaw,
                  logins, payload, callOut, configFile, cachedAwsConfig,
                  configFileMtime, timerVars, respondedAt >>

\* access settles: throw 'AWS config file not found', or await stat
ConfigAccess(r) ==
  /\ rdPc[r] = "access"
  /\ IF configFile.exists
     THEN /\ rdPc' = [rdPc EXCEPT ![r] = "stat"]
          /\ UNCHANGED rdOut
     ELSE /\ rdPc' = [rdPc EXCEPT ![r] = "threw"]
          /\ rdOut' = [rdOut EXCEPT ![r] = [from |-> "AWS config file not found", why |-> None]]
  /\ UNCHANGED << now, pc, writeVars, dueVars, retryVars, daemonVars, cleanupSaw,
                  logins, payload, callOut, configFile, cachedAwsConfig,
                  configFileMtime, configContent, currentMtime, timerVars, respondedAt >>

\* the stat of the file is taken (ENOENT if the file has gone since)
ConfigStat(r) ==
  /\ rdPc[r] = "stat"
  /\ IF configFile.exists
     THEN /\ rdPc' = [rdPc EXCEPT ![r] = "statted"]
          /\ currentMtime' = [currentMtime EXCEPT ![r] = Mtime(configFile.mtimeMs)]
          /\ UNCHANGED rdOut
     ELSE /\ rdPc' = [rdPc EXCEPT ![r] = "threw"]
          /\ rdOut' = [rdOut EXCEPT ![r] = [from |-> "ENOENT", why |-> None]]
          /\ UNCHANGED currentMtime
  /\ UNCHANGED << now, pc, writeVars, dueVars, retryVars, daemonVars, cleanupSaw,
                  logins, payload, callOut, configFile, cachedAwsConfig,
                  configFileMtime, configContent, timerVars, respondedAt >>

\* a check that trusts the cache whenever there is one
ConfigCheckAnyCache(r) ==
  /\ rdPc[r] = "statted"
  /\ IF ~cachedAwsConfig.isNull
     THEN /\ rdPc' = [rdPc EXCEPT ![r] = "done"]
          /\ rdOut' = [rdOut EXCEPT ![r] =
                         [from |-> "cache", value |-> cachedAwsConfig.sections,
                          stat |-> currentMtime[r], why |-> "mtime as recorded"]]
          /\ currentMtime' = [currentMtime EXCEPT ![r] = NullMtime]
     ELSE /\ rdPc' = [rdPc EXCEPT ![r] = "readFile"]
          /\ rdOut' = [rdOut EXCEPT ![r] =
                         [from |-> None,
                          why |-> IF cachedAwsConfig.isNull THEN "no cached parse"
                                  ELSE "mtime changed"]]
          /\ UNCHANGED currentMtime
  /\ UNCHANGED << now, pc, writeVars, dueVars, retryVars, daemonVars, cleanupSaw,
                  logins, payload, callOut, configFile, cachedAwsConfig,
                  configFileMtime, configContent, timerVars, respondedAt >>

\* await stat returned: if (cachedAwsConfig && configFileMtime === currentMtime)
\* return cachedAwsConfig; otherwise await readFile
ConfigCheck(r) ==
  /\ rdPc[r] = "statted"
  /\ IF ~cachedAwsConfig.isNull /\ configFileMtime = currentMtime[r]
     THEN /\ rdPc' = [rdPc EXCEPT ![r] = "done"]
          /\ rdOut' = [rdOut EXCEPT ![r] =
                         [from |-> "cache", value |-> cachedAwsConfig.sections,
                          stat |-> currentMtime[r], why |-> "mtime as recorded"]]
          /\ currentMtime' = [currentMtime EXCEPT ![r] = NullMtime]
     ELSE /\ rdPc' = [rdPc EXCEPT ![r] = "readFile"]
          /\ rdOut' = [rdOut EXCEPT ![r] =
                         [from |-> None,
                          why |-> IF cachedAwsConfig.isNull THEN "no cached parse"
                                  ELSE "mtime changed"]]
          /\ UNCHANGED currentMtime
  /\ UNCHANGED << now, pc, writeVars, dueVars, retryVars, daemonVars, cleanupSaw,
                  logins, payload, callOut, configFile, cachedAwsConfig,
                  configFileMtime, configContent, timerVars, respondedAt >>

\* the content of the file is read (ENOENT if the file has gone since)
ConfigReadFile(r) ==
  /\ rdPc[r] = "readFile"
  /\ IF configFile.exists
     THEN /\ rdPc' = [rdPc EXCEPT ![r] = "loaded"]
          /\ configContent' = [configContent EXCEPT ![r] = configFile.content]
          /\ UNCHANGED rdOut
     ELSE /\ rdPc' = [rdPc EXCEPT ![r] = "threw"]
          /\ rdOut' = [rdOut EXCEPT ![r] = [from |-> "ENOENT", why |-> None]]
          /\ UNCHANGED configContent
  /\ currentMtime' = [currentMtime EXCEPT ![r] =
                        IF configFile.exists THEN @ ELSE NullMtime]
  /\ UNCHANGED << now, pc, writeVars, dueVars, retryVars, daemonVars, cleanupSaw,
                  logins, payload, callOut, configFile, cachedAwsConfig,
                  configFileMtime, timerVars, respondedAt >>

\* await readFile returned: parse, cachedAwsConfig = sections,
\* configFileMtime = currentMtime, return sections
ConfigParse(r) ==
  /\ rdPc[r] = "loaded"
  /\ cachedAwsConfig' = Parsed(ParseConfig(configContent[r]))
  /\ configFileMtime' = currentMtime[r]
  /\ rdPc' = [rdPc EXCEPT ![r] = "done"]
  /\ rdOut' = [rdOut EXCEPT ![r] =
                 [from |-> "parse", value |-> ParseConfig(configContent[r]),
                  stat |-> currentMtime[r], why |-> rdOut[r].why]]
  /\ configContent' = [configContent EXCEPT ![r] = << >>]
  /\ currentMtime' = [currentMtime EXCEPT ![r] = NullMtime]
  /\ UNCHANGED << now, pc, writeVars, dueVars, retryVars, daemonVars, cleanupSaw,
                  logins, payload, callOut, configFile, timerVars, respondedAt >>

\* clearConfigCache()
ClearConfigCache ==
  /\ cachedAwsConfig' = NullConfig
  /\ configFileMtime' = NullMtime
  /\ UNCHANGED << now, pc, writeVars, dueVars, retryVars, daemonVars, cleanupSaw,
                  logins, payload, callOut, configFile, rdPc, configContent,
                  currentMtime, rdOut, timerVars, respondedAt >>

\* the texts an editor leaves in ~/.aws/config
ConfigTexts ==
  { << Header("sso-session s"), Pair("sso_start_url", url), OtherLine,
       Pair("sso_region", "ca-central-1") >> : url \in {StartUrl, OtherUrl} }
  \cup { << Pair("sso_start_url", StartUrl), Header("sso-session s"),
            Pair("sso_region", "ca-central-1"), Header("sso-session s") >> }

\* the file is written by someone: the file system stamps it with the time
ConfigWrite ==
  /\ now <= MaxEditClock
  /\ \E text \in ConfigTexts :
       /\ ~(configFile.exists /\ configFile.content = text)
       /\ configFile' = [exists |-> TRUE, content |-> text, mtimeMs |-> now]
  /\ UNCHANGED << now, pc, writeVars, dueVars, retryVars, daemonVars, cleanupSaw,
                  logins, payload, callOut, cachedAwsConfig, configFileMtime,
                  rdPc, configContent, currentMtime, rdOut, timerVars, respondedAt >>

\* the file is removed
ConfigRemove ==
  /\ now <= MaxEditClock
  /\ configFile.exists
  /\ configFile' = NoConfigFile
  /\ UNCHANGED << now, pc, writeVars, dueVars, retryVars, daemonVars, cleanupSaw,
                  logins, payload, callOut, cachedAwsConfig, configFileMtime,
                  rdPc, configContent, currentMtime, rdOut, timerVars, respondedAt >>

---------------------------------------------------------------------------
(* Initial states *)

DefaultMaxRetryAttempts == 3
DefaultRetryBackoffSeconds == 10
DefaultRefreshThreshold == 300000

\* cache records an interactive login leaves behind
CacheRecords ==
  { [accessToken |-> "at0", refreshToken |-> "rt0", clientId |-> "cid",
     clientSecret |-> "sec", expiresAt |-> ClockStart + 4000,
     region |-> rg, startUrl |-> su, registrationExpiresAt |-> re] :
       rg \in {"ca-central-1", Missing}, su \in {StartUrl, Missing},
       re \in {"2026-06-01T00:00:00Z", Missing} }

OtherSessionRecord ==
  [accessToken |-> "atX", refreshToken |-> "rtX", clientId |-> "cidX",
   clientSecret |-> "secX", expiresAt |-> ClockStart + 4000,
   region |-> "us-east-1", startUrl |-> OtherUrl,
   registrationExpiresAt |-> Missing]

\* the cache directory after a login: the session's record under the
\* computed name, or under another name with the session's startUrl
InitDirs ==
  { [n \in Names |-> IF n = "hash" THEN Complete(JsonStringify(r))
                      ELSE IF n = "alt" THEN other ELSE NoFile] :
      r \in CacheRecords,
      other \in {NoFile, Complete(JsonStringify(OtherSessionRecord))} }
  \cup
  { [n \in Names |-> IF n = "alt" THEN Complete(JsonStringify(r)) ELSE NoFile] :
      r \in {c \in CacheRecords : c.startUrl = StartUrl} }

\* the newTokens arguments of writeTokenCache
NewTokenArgs ==
  { [accessToken |-> "at1", refreshToken |-> rt,
     expiresAt |-> ClockStart + 3600000, expiresIn |-> 3600] :
       rt \in {"rt1", Missing} }

CredChoices ==
  { [clientId |-> "cid", clientSecret |-> "sec", refreshToken |-> "rt0"] }

BackoffChoices == {1, 2, DefaultRetryBackoffSeconds}
ThresholdChoices == {1000, 5000, DefaultRefreshThreshold}
\* expiresAt - now of the credentials handed to shouldRefresh
ExpiryOffsets ==
  UNION { {th - 1, th, th + 1} : th \in ThresholdChoices }
    \cup {0 - 60000, 0 - 1, 0, 1, 3600000}

NoReport == [ended |-> None, said |-> None]
NoCall == [fn |-> None]

InitIdle ==
  /\ now = ClockStart
  /\ tmp = [p \in Procs |-> NoFile]
  /\ wPath = [p \in Procs |-> None]
  /\ wCur = [p \in Procs |-> NoRecord]
  /\ wPre = [p \in Procs |-> [n \in Names |-> NoFile]]
  /\ readerSaw = [saw |-> None, during |-> {}]
  /\ dueOut = NotCalled
  /\ abortController = None
  /\ aborted = {}
  /\ attempt = [p \in Procs |-> 0]
  /\ wake = [p \in Procs |-> 0]
  /\ lastError = [p \in Procs |-> NoError]
  /\ result = [p \in Procs |-> NoTokens]
  /\ hist = [p \in Procs |-> << >>]
  /\ sleeps = [p \in Procs |-> << >>]
  /\ calledAt = [p \in Procs |-> 0]
  /\ failedAt = [p \in Procs |-> 0]
  /\ cleanupSaw = {}
  /\ report = [p \in Procs |-> NoReport]
  /\ stops = << >>
  /\ warned = 0
  /\ logins = 0
  /\ callOut = NoCall
  /\ cachedAwsConfig = NullConfig
  /\ configFileMtime = NullMtime
  /\ rdPc = [r \in Readers |-> "off"]
  /\ configContent = [r \in Readers |-> << >>]
  /\ currentMtime = [r \in Readers |-> NullMtime]
  /\ rdOut = [r \in Readers |-> NoRead]
  /\ strayTimers = << >>
  /\ starts = 0
  /\ respondedAt = 0

\* the scheduler is not running
DaemonOff ==
  /\ isShuttingDown = FALSE
  /\ monitorInterval = None
  /\ consecutiveFailures = 0
  /\ maxRetryAttempts = DefaultMaxRetryAttempts
  /\ starter = "off"
  /\ nextFire = 0
  /\ payload = None
  /\ configFile = NoConfigFile

\* one call of writeTokenCache(newTokens) on a directory left by a login
InitWrite ==
  /\ InitIdle
  /\ DaemonOff
  /\ files \in InitDirs
  /\ pc = [p \in Procs |-> IF p = "c1" THEN "w_call" ELSE "off"]
  /\ \E nt \in NewTokenArgs : wNew = [p \in Procs |-> IF p = "c1" THEN nt ELSE NoTokens]
  /\ refreshThreshold = DefaultRefreshThreshold
  /\ dueIn = NoDate
  /\ retryBackoffSeconds = DefaultRetryBackoffSeconds
  /\ endpoint = {}
  /\ lastRequestTime = 0
  /\ creds = [p \in Procs |-> NoCreds]
  /\ maxAttempts = [p \in Procs |-> 0]
  /\ requests = << >>

NextWrite ==
  \/ \E p \in Procs : WriteResolve(p)
  \/ \E p \in Procs : WriteReadCurrent(p)
  \/ \E p \in Procs : WriteTmpOpen(p)
  \/ \E p \in Procs : WriteTmpFinish(p)
  \/ \E p \in Procs : WriteRename(p)
  \/ \E p \in Procs : WriteChmod(p)
  \/ \E p \in Procs : WriteIoError(p)
  \/ Crash
  \/ ReaderRead

SpecWrite == InitWrite /\ [][NextWrite]_vars

\* shouldRefresh(expiresAt) for any expiresAt, threshold and time
InitDue ==
  /\ InitIdle
  /\ DaemonOff
  /\ files = [n \in Names |-> NoFile]
  /\ pc = [p \in Procs |-> "off"]
  /\ wNew = [p \in Procs |-> NoTokens]
  /\ refreshThreshold \in ThresholdChoices
  /\ dueIn \in {ClockStart + d : d \in ExpiryOffsets}
  /\ retryBackoffSeconds = DefaultRetryBackoffSeconds
  /\ endpoint = {}
  /\ lastRequestTime = 0
  /\ creds = [p \in Procs |-> NoCreds]
  /\ maxAttempts = [p \in Procs |-> 0]
  /\ requests = << >>

NextDue == ShouldRefreshCall \/ Tick

SpecDue == InitDue /\ [][NextDue]_vars

\* one call of refreshTokenWithRetry(credentials, maxAttempts), the previous
\* request (if any) being lastRequestTime
InitRetry ==
  /\ InitIdle
  /\ DaemonOff
  /\ files = [n \in Names |-> NoFile]
  /\ pc = [p \in Procs |-> IF p = "c1" THEN "r_call" ELSE "off"]
  /\ wNew = [p \in Procs |-> NoTokens]
  /\ refreshThreshold = DefaultRefreshThreshold
  /\ dueIn = NoDate
  /\ retryBackoffSeconds \in BackoffChoices
  /\ endpoint = OutcomeNames \ {"canceled"}
  /\ lastRequestTime \in {0, ClockStart - TickMs}
  /\ requests = IF lastRequestTime = 0 THEN << >>
                ELSE << [by |-> "earlier", at |-> lastRequestTime] >>
  /\ \E cr \in CredChoices :
       creds = [p \in Procs |-> IF p = "c1" THEN cr ELSE NoCreds]
  /\ \E m \in (0 .. MaxAttemptsArg) \cup {DefaultMaxRetryAttempts} :
       maxAttempts = [p \in Procs |-> IF p = "c1" THEN m ELSE 0]

NextRetry ==
  \/ \E p \in Procs : RetryCall(p)
  \/ \E p \in Procs : RateWake(p)
  \/ \E p \in Procs : Respond(p)
  \/ \E p \in Procs : BackoffWake(p)
  \/ Cleanup
  \/ Tick

SpecRetry == InitRetry /\ [][NextRetry]_vars

\* two overlapping calls of refreshTokenWithRetry (the cycles of two timer
\* ticks, the first still retrying when the second starts)
InitOverlap ==
  /\ InitIdle
  /\ DaemonOff
  /\ files = [n \in Names |-> NoFile]
  /\ pc = [p \in Procs |-> "r_call"]
  /\ wNew = [p \in Procs |-> NoTokens]
  /\ refreshThreshold = DefaultRefreshThreshold
  /\ dueIn = NoDate
  /\ retryBackoffSeconds \in {1, 5}
  /\ endpoint = {"ok_rotated", "refused"}
  /\ lastRequestTime = 0
  /\ requests = << >>
  /\ \E cr \in CredChoices : creds = [p \in Procs |-> cr]
  /\ maxAttempts = [p \in Procs |-> 2]

SpecOverlap == InitOverlap /\ [][NextRetry]_vars

---------------------------------------------------------------------------
(* index: the scheduler *)

MAX_CONSECUTIVE_FAILURES == 5

\* the cycle startMonitoring awaits before it arms the timer
InitialCycle == "c1"

\* the errors readTokenCache and writeTokenCache throw
ReadError(r) ==
  IF r.error \in {"Cache file not found", "missing required fields",
                  "invalid expiry date"}
  THEN Error(GetReloginErrorMessage({r.error}))
  ELSE Error({r.error})
WriteError == Error({"write failed"})

\* the error the catch block of refreshTokenIfNeeded receives
CaughtError(p) == IF pc[p] = "w_failed" THEN WriteError ELSE lastError[p]

\* error.message.includes('invalid or expired') ||
\* error.message.includes('invalid_grant')
IsReloginError(err) ==
  Includes(err.message, "invalid or expired") \/ Includes(err.message, "invalid_grant")

\* a catch block that counts the attempts of the retry loop as failures
CatchBlockCountingAttempts(p, err) ==
  /\ consecutiveFailures' = consecutiveFailures + Len(hist[p])
  /\ UNCHANGED warned
  /\ IF ~err.defined
     THEN /\ report' = [report EXCEPT ![p] = [ended |-> "threw", said |-> "TypeError"]]
          /\ pc' = [pc EXCEPT ![p] = "c_threw"]
     ELSE /\ report' = [report EXCEPT ![p] =
                          [ended |-> "returned",
                           said |-> IF IsReloginError(err) THEN "relogin-required"
                                                           ELSE "error"]]
          /\ pc' = [pc EXCEPT ![p] = "c_done"]

\* the catch block of refreshTokenIfNeeded: count the failure, report it,
\* warn if (consecutiveFailures === MAX_CONSECUTIVE_FAILURES).
\* Reading error.message of a thrown undefined is a TypeError, which leaves
\* the function as a rejection before the report and the warning.
CatchBlock(p, err) ==
  /\ consecutiveFailures' = consecutiveFailures + 1
  /\ IF ~err.defined
     THEN /\ report' = [report EXCEPT ![p] = [ended |-> "threw", said |-> "TypeError"]]
          /\ pc' = [pc EXCEPT ![p] = "c_threw"]
          /\ UNCHANGED warned
     ELSE /\ report' = [report EXCEPT ![p] =
                          [ended |-> "returned",
                           said |-> IF IsReloginError(err) THEN "relogin-required"
                                                           ELSE "error"]]
          /\ pc' = [pc EXCEPT ![p] = "c_done"]
          /\ warned' = IF consecutiveFailures + 1 = MAX_CONSECUTIVE_FAILURES
                       THEN warned + 1 ELSE warned

\* an entry that does not look at the shutdown flag
CycleEnterIgnoringFlag(p) ==
  /\ pc' = [pc EXCEPT ![p] = "c_read"]
  /\ UNCHANGED report

\* refreshTokenIfNeeded() up to its first await
CycleEnter(p) ==
  IF isShuttingDown
  THEN /\ pc' = [pc EXCEPT ![p] = "c_done"]
       /\ report' = [report EXCEPT ![p] = [ended |-> "returned", said |-> "skipped"]]
  ELSE /\ pc' = [pc EXCEPT ![p] = "c_read"]
       /\ UNCHANGED report

\* startMonitoring(): the immediate cycle is started and awaited
StartMonitoring ==
  /\ starter = "off"
  /\ pc[InitialCycle] = "off"
  /\ starter' = "initial"
  /\ starts' = starts + 1
  /\ CycleEnter(InitialCycle)
  /\ UNCHANGED << now, writeVars, dueVars, retryVars, cleanupSaw, isShuttingDown,
                  monitorInterval, consecutiveFailures, maxRetryAttempts,
                  nextFire, stops, warned, logins, payload, callOut, configVars,
                  strayTimers,
                  respondedAt >>

\* a start without the try/catch around the immediate cycle: a cycle that
\* throws ends startMonitoring() before the timer is armed
StartArmUnlessThrew ==
  /\ starter = "initial"
  /\ pc[InitialCycle] = "c_done"
  /\ monitorInterval' = "armed"
  /\ nextFire' = now + CheckIntervalMs
  /\ strayTimers' = IF monitorInterval = "armed"
                    THEN Append(strayTimers, nextFire) ELSE strayTimers
  /\ starter' = "running"
  /\ UNCHANGED << now, pc, writeVars, dueVars, retryVars, cleanupSaw,
                  isShuttingDown, consecutiveFailures, maxRetryAttempts, report,
                  stops, warned, logins, payload, callOut, configVars, starts,
                  respondedAt >>

\* startMonitoring() after the immediate cycle has settled, whatever way:
\* monitorInterval = setInterval(...).  A timer the variable held before
\* stays armed; the variable holds the new one.
StartArm ==
  /\ starter = "initial"
  /\ pc[InitialCycle] \in {"c_done", "c_threw"}
  /\ monitorInterval' = "armed"
  /\ nextFire' = now + CheckIntervalMs
  /\ strayTimers' = IF monitorInterval = "armed"
                    THEN Append(strayTimers, nextFire) ELSE strayTimers
  /\ starter' = "running"
  /\ UNCHANGED << now, pc, writeVars, dueVars, retryVars, cleanupSaw,
                  isShuttingDown, consecutiveFailures, maxRetryAttempts, report,
                  stops, warned, logins, payload, callOut, configVars, starts,
                  respondedAt >>

\* the cycles that have ended; the model runs a new cycle in the place of
\* one that has ended (at most Cardinality(Procs) cycles run at once)
Ended(p) == pc[p] \in {"off", "c_done", "c_threw"}
FreeSlot == IF Ended(InitialCycle) THEN InitialCycle
            ELSE CHOOSE p \in Procs : p # InitialCycle

\* a timer that stops firing once the failures have reached the maximum
TimerDueUnlessFailing ==
  /\ monitorInterval = "armed"
  /\ now >= nextFire
  /\ consecutiveFailures < MAX_CONSECUTIVE_FAILURES

\* the timer setInterval armed is due
TimerDue ==
  /\ monitorInterval = "armed"
  /\ now >= nextFire

\* the interval timer fires: a cycle starts, whether or not an earlier one
\* is still running; what the model remembers of the ended cycle is dropped
IntervalCallback(p) ==
  /\ TimerDue
  /\ Ended(p) /\ p = FreeSlot
  /\ nextFire' = now + CheckIntervalMs
  /\ IF isShuttingDown
     THEN /\ pc' = [pc EXCEPT ![p] = "c_done"]
          /\ report' = [report EXCEPT ![p] = [ended |-> "returned", said |-> "skipped"]]
     ELSE /\ pc' = [pc EXCEPT ![p] = "c_read"]
          /\ report' = [report EXCEPT ![p] = NoReport]
  /\ tmp' = [tmp EXCEPT ![p] = NoFile]
  /\ wNew' = [wNew EXCEPT ![p] = NoTokens]
  /\ wPath' = [wPath EXCEPT ![p] = None]
  /\ wCur' = [wCur EXCEPT ![p] = NoRecord]
  /\ wPre' = [wPre EXCEPT ![p] = [n \in Names |-> NoFile]]
  /\ creds' = [creds EXCEPT ![p] = NoCreds]
  /\ maxAttempts' = [maxAttempts EXCEPT ![p] = 0]
  /\ attempt' = [attempt EXCEPT ![p] = 0]
  /\ wake' = [wake EXCEPT ![p] = 0]
  /\ lastError' = [lastError EXCEPT ![p] = NoError]
  /\ result' = [result EXCEPT ![p] = NoTokens]
  /\ hist' = [hist EXCEPT ![p] = << >>]
  /\ sleeps' = [sleeps EXCEPT ![p] = << >>]
  /\ calledAt' = [calledAt EXCEPT ![p] = 0]
  /\ failedAt' = [failedAt EXCEPT ![p] = 0]
  /\ cleanupSaw' = cleanupSaw \ {p}
  /\ UNCHANGED << now, files, readerSaw, dueVars, retryBackoffSeconds, endpoint,
                  lastRequestTime, abortController, aborted, requests,
                  isShuttingDown, monitorInterval, consecutiveFailures,
                  maxRetryAttempts, starter, stops, warned, envVars >>

\* the timer fires in a run that keeps to MaxRunning cycles at a time
TimerFire(p) ==
  /\ Cardinality({q \in Procs : ~Ended(q)}) < MaxRunning
  /\ IntervalCallback(p)

\* const cache = await cacheManager.readTokenCache() settles: the rest of
\* the cycle up to its return or to the first await inside
\* refreshTokenWithRetry(credentials)
CycleRead(p) ==
  /\ pc[p] = "c_read"
  /\ \E r \in ReadTokenCache(files) :
       IF ~r.ok
       THEN /\ CatchBlock(p, ReadError(r))
            /\ UNCHANGED << retryVars >>
       ELSE IF ~ShouldRefresh(r.rec.expiresAt, now)
       THEN /\ consecutiveFailures' = 0
            /\ report' = [report EXCEPT ![p] = [ended |-> "returned", said |-> "not-due"]]
            /\ pc' = [pc EXCEPT ![p] = "c_done"]
            /\ UNCHANGED << retryVars, warned >>
       ELSE /\ creds' = [creds EXCEPT ![p] =
                           [clientId |-> r.rec.clientId,
                            clientSecret |-> r.rec.clientSecret,
                            refreshToken |-> r.rec.refreshToken]]
            /\ maxAttempts' = [maxAttempts EXCEPT ![p] = maxRetryAttempts]
            /\ attempt' = [attempt EXCEPT ![p] = 1]
            /\ IF 1 <= maxRetryAttempts
               THEN /\ EnterRefreshToken(p)
                    /\ UNCHANGED lastError
               ELSE /\ lastError' = [lastError EXCEPT ![p] = ThrownUndefined]
                    /\ pc' = [pc EXCEPT ![p] = "thrown"]
                    /\ UNCHANGED << wake, lastRequestTime, abortController,
                                    aborted, requests, calledAt >>
            /\ UNCHANGED << consecutiveFailures, report, retryBackoffSeconds,
                            endpoint, result, hist, sleeps, failedAt, warned >>
  /\ UNCHANGED << now, writeVars, dueVars, cleanupSaw, isShuttingDown,
                  monitorInterval, maxRetryAttempts, starter, nextFire, stops,
                  envVars >>

\* await refreshTokenWithRetry(credentials) returned newTokens:
\* cacheManager.writeTokenCache(newTokens) is called
CycleWriteCall(p) ==
  /\ pc[p] = "returned"
  /\ wNew' = [wNew EXCEPT ![p] = result[p]]
  /\ pc' = [pc EXCEPT ![p] = "w_call"]
  /\ UNCHANGED << now, files, tmp, wPath, wCur, wPre, readerSaw, dueVars,
                  retryVars, schedVars >>

\* a cycle that reports the refresh as soon as the exchange has returned
CycleSucceedBeforeWrite(p) ==
  /\ pc[p] = "returned"
  /\ consecutiveFailures' = 0
  /\ report' = [report EXCEPT ![p] = [ended |-> "returned", said |-> "refreshed"]]
  /\ pc' = [pc EXCEPT ![p] = "c_done"]
  /\ UNCHANGED << now, writeVars, dueVars, retryVars, cleanupSaw, isShuttingDown,
                  monitorInterval, maxRetryAttempts, starter, nextFire, stops,
                  warned, envVars >>

\* await writeTokenCache(newTokens) returned: notify, reset the counter
CycleSucceed(p) ==
  /\ pc[p] = "w_done"
  /\ consecutiveFailures' = 0
  /\ report' = [report EXCEPT ![p] = [ended |-> "returned", said |-> "refreshed"]]
  /\ pc' = [pc EXCEPT ![p] = "c_done"]
  /\ UNCHANGED << now, writeVars, dueVars, retryVars, cleanupSaw, isShuttingDown,
                  monitorInterval, maxRetryAttempts, starter, nextFire, stops,
                  warned, envVars >>

\* a catch block that lets a failed write pass as a refresh
CycleCatchForgivingWrite(p) ==
  /\ pc[p] \in {"thrown", "w_failed"}
  /\ IF pc[p] = "w_failed"
     THEN /\ consecutiveFailures' = 0
          /\ report' = [report EXCEPT ![p] = [ended |-> "returned", said |-> "refreshed"]]
          /\ pc' = [pc EXCEPT ![p] = "c_done"]
          /\ UNCHANGED warned
     ELSE CatchBlock(p, CaughtError(p))
  /\ UNCHANGED << now, writeVars, dueVars, retryVars, cleanupSaw, isShuttingDown,
                  monitorInterval, maxRetryAttempts, starter, nextFire, stops,
                  envVars >>

\* refreshTokenWithRetry or writeTokenCache threw: the catch block
CycleCatch(p) ==
  /\ pc[p] \in {"thrown", "w_failed"}
  /\ CatchBlock(p, CaughtError(p))
  /\ UNCHANGED << now, writeVars, dueVars, retryVars, cleanupSaw, isShuttingDown,
                  monitorInterval, maxRetryAttempts, starter, nextFire, stops,
                  envVars >>

\* a stop that sets the flag and disarms the timer but leaves the request
StopWithoutCleanup ==
  /\ Len(stops) < MaxStops
  /\ isShuttingDown' = TRUE
  /\ monitorInterval' = None
  /\ stops' = Append(stops, [timer |-> monitorInterval, request |-> abortController,
                             busy |-> {pc[p] : p \in Procs}, sent |-> Len(requests)])
  /\ UNCHANGED << now, pc, writeVars, dueVars, retryVars, cleanupSaw,
                  consecutiveFailures, maxRetryAttempts, starter, nextFire, report,
                  warned, envVars >>

\* stopMonitoring()
StopMonitoring ==
  /\ Len(stops) < MaxStops
  /\ isShuttingDown' = TRUE
  /\ monitorInterval' = None
  /\ AbortInFlight
  /\ stops' = Append(stops, [timer |-> monitorInterval, request |-> abortController,
                             busy |-> {pc[p] : p \in Procs}, sent |-> Len(requests)])
  /\ UNCHANGED << now, pc, writeVars, dueVars, retryBackoffSeconds, endpoint,
                  lastRequestTime, creds, maxAttempts, attempt, wake, lastError,
                  result, hist, sleeps, calledAt, failedAt, requests,
                  consecutiveFailures, maxRetryAttempts, starter, nextFire, report,
                  warned, envVars >>

\* the daemon: main() has validated the configuration and calls
\* startMonitoring(); signals call stopMonitoring()
DaemonRecord ==
  [accessToken |-> "at0", refreshToken |-> "rt0", clientId |-> "cid",
   clientSecret |-> "sec", expiresAt |-> ClockStart + 4000,
   region |-> "ca-central-1", startUrl |-> StartUrl,
   registrationExpiresAt |-> Missing]

DaemonDirs ==
  { [n \in Names |-> IF n = "hash" THEN Complete(JsonStringify(r)) ELSE NoFile] :
      r \in {DaemonRecord, [DaemonRecord EXCEPT !.refreshToken = Missing]} }
  \cup { [n \in Names |-> NoFile] }

DaemonEndpoints ==
  { {"ok_rotated", "ok_same", "timeout"},
    {"invalid_grant", "unauthorized", "ok_no_access"} }

InitDaemon ==
  /\ InitIdle
  /\ files \in DaemonDirs
  /\ pc = [p \in Procs |-> "off"]
  /\ wNew = [p \in Procs |-> NoTokens]
  /\ refreshThreshold \in {1000, 5000}
  /\ dueIn = NoDate
  /\ retryBackoffSeconds = 1
  /\ endpoint \in DaemonEndpoints
  /\ lastRequestTime = 0
  /\ requests = << >>
  /\ creds = [p \in Procs |-> NoCreds]
  /\ maxAttempts = [p \in Procs |-> 0]
  /\ isShuttingDown = FALSE
  /\ monitorInterval = None
  /\ consecutiveFailures = 0
  /\ maxRetryAttempts \in {0, 2}
  /\ starter = "off"
  /\ nextFire = 0
  /\ payload = None
  /\ configFile = NoConfigFile

NextDaemon ==
  \/ StartMonitoring
  \/ StartArm
  \/ \E p \in Procs : TimerFire(p)
  \/ \E p \in Procs : CycleRead(p)
  \/ \E p \in Procs : RateWake(p)
  \/ \E p \in Procs : Respond(p)
  \/ \E p \in Procs : BackoffWake(p)
  \/ \E p \in Procs : CycleWriteCall(p)
  \/ \E p \in Procs : WriteResolve(p)
  \/ \E p \in Procs : WriteReadCurrent(p)
  \/ \E p \in Procs : WriteTmpOpen(p)
  \/ \E p \in Procs : WriteTmpFinish(p)
  \/ \E p \in Procs : WriteRename(p)
  \/ \E p \in Procs : WriteChmod(p)
  \/ \E p \in Procs : WriteIoError(p)
  \/ \E p \in Procs : CycleSucceed(p)
  \/ \E p \in Procs : CycleCatch(p)
  \/ StopMonitoring
  \/ Tick

SpecDaemon == InitDaemon /\ [][NextDaemon]_vars

---------------------------------------------------------------------------
(* The daemon with a slow endpoint: every timer period starts its cycle *)

InitTimer ==
  /\ InitIdle
  /\ files = [n \in Names |-> IF n = "hash"
                                THEN Complete(JsonStringify(DaemonRecord))
                                ELSE NoFile]
  /\ pc = [p \in Procs |-> "off"]
  /\ wNew = [p \in Procs |-> NoTokens]
  /\ refreshThreshold = 5000
  /\ dueIn = NoDate
  /\ retryBackoffSeconds \in {1, 5}
  /\ endpoint = {"ok_rotated", "timeout"}
  /\ lastRequestTime = 0
  /\ requests = << >>
  /\ creds = [p \in Procs |-> NoCreds]
  /\ maxAttempts = [p \in Procs |-> 0]
  /\ isShuttingDown = FALSE
  /\ monitorInterval = None
  /\ consecutiveFailures = 0
  /\ maxRetryAttempts = 2
  /\ starter = "off"
  /\ nextFire = 0
  /\ payload = None
  /\ configFile = NoConfigFile

NextTimer ==
  \/ StartMonitoring
  \/ StartArm
  \/ \E p \in Procs : IntervalCallback(p)
  \/ \E p \in Procs : CycleRead(p)
  \/ \E p \in Procs : RateWake(p)
  \/ \E p \in Procs : Respond(p)
  \/ \E p \in Procs : BackoffWake(p)
  \/ \E p \in Procs : CycleWriteCall(p)
  \/ \E p \in Procs : WriteResolve(p)
  \/ \E p \in Procs : WriteReadCurrent(p)
  \/ \E p \in Procs : WriteTmpOpen(p)
  \/ \E p \in Procs : WriteTmpFinish(p)
  \/ \E p \in Procs : WriteRename(p)
  \/ \E p \in Procs : WriteChmod(p)
  \/ \E p \in Procs : WriteIoError(p)
  \/ \E p \in Procs : CycleSucceed(p)
  \/ \E p \in Procs : CycleCatch(p)
  \/ Tick

SpecTimer == InitTimer /\ [][NextTimer]_vars

---------------------------------------------------------------------------
(* The daemon over many timer periods, next to the login tool *)

\* the record an interactive login writes: another client registration,
\* other tokens
LoginRecord(exp) ==
  [accessToken |-> "at2", refreshToken |-> "rt2", clientId |-> "cid2",
   clientSecret |-> "sec2", expiresAt |-> exp,
   region |-> "ca-central-1", startUrl |-> StartUrl,
   registrationExpiresAt |-> Missing]

\* the record a login without an sso-session writes: no refresh token, no
\* client registration
LegacyLoginRecord(exp) ==
  [LoginRecord(exp) EXCEPT !.refreshToken = Missing, !.clientId = Missing,
                           !.clientSecret = Missing]

\* how long the access token of a login has left when the file is written
LoginLifetimes == {4000, 3600000}

\* what a login may write at time t
LoginRecords(t) ==
  {LoginRecord(t + life) : life \in LoginLifetimes}
    \cup {LegacyLoginRecord(t + 3600000)}

\* aws sso login: the external tool replaces the whole cache file
ExternalLogin ==
  /\ logins < MaxLogins
  /\ logins' = logins + 1
  /\ \E rec \in LoginRecords(now) :
       files' = [files EXCEPT !["hash"] = Complete(JsonStringify(rec))]
  /\ UNCHANGED << now, pc, tmp, wNew, wPath, wCur, wPre, readerSaw, dueVars,
                  retryVars, daemonVars, cleanupSaw, payload, callOut,
                  configVars, timerVars, respondedAt >>

\* aws sso logout: the external tool removes the cache file
ExternalLogout ==
  /\ logins < MaxLogins
  /\ files["hash"].state # "absent"
  /\ logins' = logins + 1
  /\ files' = [files EXCEPT !["hash"] = NoFile]
  /\ UNCHANGED << now, pc, tmp, wNew, wPath, wCur, wPre, readerSaw, dueVars,
                  retryVars, daemonVars, cleanupSaw, payload, callOut,
                  configVars, timerVars, respondedAt >>

\* a whole timer period passes, once the cycle of the period has ended
TickLong ==
  /\ now + CheckIntervalMs <= MaxLongClock
  /\ starter = "running"
  /\ now < nextFire
  /\ \A p \in Procs : Ended(p)
  /\ now' = now + CheckIntervalMs
  /\ UNCHANGED << pc, writeVars, dueVars, retryVars >>
  /\ UNCHANGED schedVars

LongRunEndpoints == { {"invalid_grant", "timeout"}, {"ok_same", "ok_rotated"} }

InitLongRun ==
  /\ InitIdle
  /\ files \in { [n \in Names |-> NoFile],
                 [n \in Names |-> IF n = "hash"
                                  THEN Complete(JsonStringify(DaemonRecord))
                                  ELSE NoFile] }
  /\ pc = [p \in Procs |-> "off"]
  /\ wNew = [p \in Procs |-> NoTokens]
  /\ refreshThreshold = 5000
  /\ dueIn = NoDate
  /\ retryBackoffSeconds = 1
  /\ endpoint \in LongRunEndpoints
  /\ lastRequestTime = 0
  /\ requests = << >>
  /\ creds = [p \in Procs |-> NoCreds]
  /\ maxAttempts = [p \in Procs |-> 0]
  /\ isShuttingDown = FALSE
  /\ monitorInterval = None
  /\ consecutiveFailures = 0
  /\ maxRetryAttempts \in {0, 1}
  /\ starter = "off"
  /\ nextFire = 0
  /\ payload = None
  /\ configFile = NoConfigFile

NextLongRun ==
  \/ StartMonitoring
  \/ StartArm
  \/ \E p \in Procs : TimerFire(p)
  \/ \E p \in Procs : CycleRead(p)
  \/ \E p \in Procs : Respond(p)
  \/ \E p \in Procs : CycleWriteCall(p)
  \/ \E p \in Procs : WriteResolve(p)
  \/ \E p \in Procs : WriteReadCurrent(p)
  \/ \E p \in Procs : WriteTmpOpen(p)
  \/ \E p \in Procs : WriteTmpFinish(p)
  \/ \E p \in Procs : WriteRename(p)
  \/ \E p \in Procs : WriteChmod(p)
  \/ \E p \in Procs : WriteIoError(p)
  \/ \E p \in Procs : CycleSucceed(p)
  \/ \E p \in Procs : CycleCatch(p)
  \/ ExternalLogin
  \/ ExternalLogout
  \/ TickLong

SpecLongRun == InitLongRun /\ [][NextLongRun]_vars

---------------------------------------------------------------------------
(* index: startMonitoring(), stopMonitoring() and refreshTokenIfNeeded()   *)
(* called in any order by a program that requires the module               *)

\* startMonitoring() is called again after an earlier call has returned;
\* what the model remembers of the ended cycle in its place is dropped
StartMonitoringAgain ==
  /\ starter = "running"
  /\ starts < MaxStarts
  /\ Ended(InitialCycle)
  /\ starter' = "initial"
  /\ starts' = starts + 1
  /\ \E p \in {InitialCycle} :
     /\ IF isShuttingDown
        THEN /\ pc' = [pc EXCEPT ![p] = "c_done"]
             /\ report' = [report EXCEPT ![p] = [ended |-> "returned", said |-> "skipped"]]
        ELSE /\ pc' = [pc EXCEPT ![p] = "c_read"]
             /\ report' = [report EXCEPT ![p] = NoReport]
     /\ tmp' = [tmp EXCEPT ![p] = NoFile]
     /\ wNew' = [wNew EXCEPT ![p] = NoTokens]
     /\ wPath' = [wPath EXCEPT ![p] = None]
     /\ wCur' = [wCur EXCEPT ![p] = NoRecord]
     /\ wPre' = [wPre EXCEPT ![p] = [n \in Names |-> NoFile]]
     /\ creds' = [creds EXCEPT ![p] = NoCreds]
     /\ maxAttempts' = [maxAttempts EXCEPT ![p] = 0]
     /\ attempt' = [attempt EXCEPT ![p] = 0]
     /\ wake' = [wake EXCEPT ![p] = 0]
     /\ lastError' = [lastError EXCEPT ![p] = NoError]
     /\ result' = [result EXCEPT ![p] = NoTokens]
     /\ hist' = [hist EXCEPT ![p] = << >>]
     /\ sleeps' = [sleeps EXCEPT ![p] = << >>]
     /\ calledAt' = [calledAt EXCEPT ![p] = 0]
     /\ failedAt' = [failedAt EXCEPT ![p] = 0]
     /\ cleanupSaw' = cleanupSaw \ {p}
  /\ UNCHANGED << now, files, readerSaw, dueVars, retryBackoffSeconds, endpoint,
                  lastRequestTime, abortController, aborted, requests,
                  isShuttingDown, monitorInterval, consecutiveFailures,
                  maxRetryAttempts, nextFire, stops, warned, logins, payload,
                  callOut, configVars, strayTimers,
                  respondedAt >>

\* an armed timer that monitorInterval does not hold fires: the same
\* callback, a cycle starts
StrayCallback(p) ==
  /\ \E i \in DOMAIN strayTimers :
       /\ now >= strayTimers[i]
       /\ strayTimers' = [strayTimers EXCEPT ![i] = now + CheckIntervalMs]
  /\ Cardinality({q \in Procs : ~Ended(q)}) < MaxRunning
  /\ Ended(p) /\ p = FreeSlot
  /\ IF isShuttingDown
     THEN /\ pc' = [pc EXCEPT ![p] = "c_done"]
          /\ report' = [report EXCEPT ![p] = [ended |-> "returned", said |-> "skipped"]]
     ELSE /\ pc' = [pc EXCEPT ![p] = "c_read"]
          /\ report' = [report EXCEPT ![p] = NoReport]
  /\ tmp' = [tmp EXCEPT ![p] = NoFile]
  /\ wNew' = [wNew EXCEPT ![p] = NoTokens]
  /\ wPath' = [wPath EXCEPT ![p] = None]
  /\ wCur' = [wCur EXCEPT ![p] = NoRecord]
  /\ wPre' = [wPre EXCEPT ![p] = [n \in Names |-> NoFile]]
  /\ creds' = [creds EXCEPT ![p] = NoCreds]
  /\ maxAttempts' = [maxAttempts EXCEPT ![p] = 0]
  /\ attempt' = [attempt EXCEPT ![p] = 0]
  /\ wake' = [wake EXCEPT ![p] = 0]
  /\ lastError' = [lastError EXCEPT ![p] = NoError]
  /\ result' = [result EXCEPT ![p] = NoTokens]
  /\ hist' = [hist EXCEPT ![p] = << >>]
  /\ sleeps' = [sleeps EXCEPT ![p] = << >>]
  /\ calledAt' = [calledAt EXCEPT ![p] = 0]
  /\ failedAt' = [failedAt EXCEPT ![p] = 0]
  /\ cleanupSaw' = cleanupSaw \ {p}
  /\ UNCHANGED << now, files, readerSaw, dueVars, retryBackoffSeconds, endpoint,
                  lastRequestTime, abortController, aborted, requests,
                  isShuttingDown, monitorInterval, consecutiveFailures,
                  maxRetryAttempts, starter, nextFire, stops, warned, logins,
                  payload, callOut, configVars, starts,
                  respondedAt >>

\* refreshTokenIfNeeded() is called by the program itself
RefreshTokenIfNeededCall(p) ==
  /\ Cardinality({q \in Procs : ~Ended(q)}) < MaxRunning
  /\ Ended(p) /\ p = FreeSlot
  /\ starter # "initial"
  /\ IF isShuttingDown
     THEN /\ pc' = [pc EXCEPT ![p] = "c_done"]
          /\ report' = [report EXCEPT ![p] = [ended |-> "returned", said |-> "skipped"]]
     ELSE /\ pc' = [pc EXCEPT ![p] = "c_read"]
          /\ report' = [report EXCEPT ![p] = NoReport]
  /\ tmp' = [tmp EXCEPT ![p] = NoFile]
  /\ wNew' = [wNew EXCEPT ![p] = NoTokens]
  /\ wPath' = [wPath EXCEPT ![p] = None]
  /\ wCur' = [wCur EXCEPT ![p] = NoRecord]
  /\ wPre' = [wPre EXCEPT ![p] = [n \in Names |-> NoFile]]
  /\ creds' = [creds EXCEPT ![p] = NoCreds]
  /\ maxAttempts' = [maxAttempts EXCEPT ![p] = 0]
  /\ attempt' = [attempt EXCEPT ![p] = 0]
  /\ wake' = [wake EXCEPT ![p] = 0]
  /\ lastError' = [lastError EXCEPT ![p] = NoError]
  /\ result' = [result EXCEPT ![p] = NoTokens]
  /\ hist' = [hist EXCEPT ![p] = << >>]
  /\ sleeps' = [sleeps EXCEPT ![p] = << >>]
  /\ calledAt' = [calledAt EXCEPT ![p] = 0]
  /\ failedAt' = [failedAt EXCEPT ![p] = 0]
  /\ cleanupSaw' = cleanupSaw \ {p}
  /\ UNCHANGED << now, files, readerSaw, dueVars, retryBackoffSeconds, endpoint,
                  lastRequestTime, abortController, aborted, requests,
                  isShuttingDown, monitorInterval, consecutiveFailures,
                  maxRetryAttempts, starter, nextFire, stops, warned, envVars >>

InitStartStop ==
  /\ InitIdle
  /\ files = [n \in Names |-> IF n = "hash"
                                THEN Complete(JsonStringify(DaemonRecord))
                                ELSE NoFile]
  /\ pc = [p \in Procs |-> "off"]
  /\ wNew = [p \in Procs |-> NoTokens]
  /\ refreshThreshold = 5000
  /\ dueIn = NoDate
  /\ retryBackoffSeconds = 1
  /\ endpoint \in {{"ok_rotated"}, {"timeout"}}
  /\ lastRequestTime = 0
  /\ requests = << >>
  /\ creds = [p \in Procs |-> NoCreds]
  /\ maxAttempts = [p \in Procs |-> 0]
  /\ isShuttingDown = FALSE
  /\ monitorInterval = None
  /\ consecutiveFailures = 0
  /\ maxRetryAttempts = 1
  /\ starter = "off"
  /\ nextFire = 0
  /\ payload = None
  /\ configFile = NoConfigFile

NextStartStop ==
  \/ StartMonitoring
  \/ StartMonitoringAgain
  \/ StartArm
  \/ StopMonitoring
  \/ \E p \in Procs : TimerFire(p)
  \/ \E p \in Procs : StrayCallback(p)
  \/ \E p \in Procs : RefreshTokenIfNeededCall(p)
  \/ \E p \in Procs : CycleRead(p)
  \/ \E p \in Procs : RateWake(p)
  \/ \E p \in Procs : Respond(p)
  \/ \E p \in Procs : CycleWriteCall(p)
  \/ \E p \in Procs : WriteResolve(p)
  \/ \E p \in Procs : WriteReadCurrent(p)
  \/ \E p \in Procs : WriteTmpOpen(p)
  \/ \E p \in Procs : WriteTmpFinish(p)
  \/ \E p \in Procs : WriteRename(p)
  \/ \E p \in Procs : WriteChmod(p)
  \/ \E p \in Procs : WriteIoError(p)
  \/ \E p \in Procs : CycleSucceed(p)
  \/ \E p \in Procs : CycleCatch(p)
  \/ Tick

SpecStartStop == InitStartStop /\ [][NextStartStop]_vars

---------------------------------------------------------------------------
(* the daemon with a refresh threshold close to the lifetime of the tokens *)
(* and cycles asked for between the timer's *)

\* thresholds that leave a window of two or three ticks after a refresh
\* (the tokens of the endpoint live 3600 s)
FreshThresholds == {3600000 - 2 * TickMs, 3600000 - 3 * TickMs}

InitFresh ==
  /\ InitIdle
  /\ files = [n \in Names |-> IF n = "hash"
                                THEN Complete(JsonStringify(DaemonRecord))
                                ELSE NoFile]
  /\ pc = [p \in Procs |-> "off"]
  /\ wNew = [p \in Procs |-> NoTokens]
  /\ refreshThreshold \in FreshThresholds
  /\ dueIn = NoDate
  /\ retryBackoffSeconds = 1
  /\ endpoint \in {{"ok_rotated", "ok_same"}, {"ok_rotated", "timeout"}}
  /\ lastRequestTime = 0
  /\ requests = << >>
  /\ creds = [p \in Procs |-> NoCreds]
  /\ maxAttempts = [p \in Procs |-> 0]
  /\ isShuttingDown = FALSE
  /\ monitorInterval = None
  /\ consecutiveFailures = 0
  /\ maxRetryAttempts \in {1, 2}
  /\ starter = "off"
  /\ nextFire = 0
  /\ payload = None
  /\ configFile = NoConfigFile

NextFresh ==
  \/ StartMonitoring
  \/ StartArm
  \/ \E p \in Procs : TimerFire(p)
  \/ \E p \in Procs : RefreshTokenIfNeededCall(p)
  \/ \E p \in Procs : CycleRead(p)
  \/ \E p \in Procs : RateWake(p)
  \/ \E p \in Procs : Respond(p)
  \/ \E p \in Procs : BackoffWake(p)
  \/ \E p \in Procs : CycleWriteCall(p)
  \/ \E p \in Procs : WriteResolve(p)
  \/ \E p \in Procs : WriteReadCurrent(p)
  \/ \E p \in Procs : WriteTmpOpen(p)
  \/ \E p \in Procs : WriteTmpFinish(p)
  \/ \E p \in Procs : WriteRename(p)
  \/ \E p \in Procs : WriteChmod(p)
  \/ \E p \in Procs : WriteIoError(p)
  \/ \E p \in Procs : CycleSucceed(p)
  \/ \E p \in Procs : CycleCatch(p)
  \/ Tick

SpecFresh == InitFresh /\ [][NextFresh]_vars

---------------------------------------------------------------------------
(* the daemon with every pending step of a cycle eventually run: the event *)
(* loop runs the continuation of each settled await, and time passes while *)
(* a sleep is pending *)

\* a cycle waits in await sleep(...) for a time still to come
Sleeping(p) == pc[p] \in {"rate_sleep", "backoff"} /\ now < wake[p]

\* time passes: up to MaxClock in any case, and further while the setTimeout
\* of a sleep is pending
TickOrWait ==
  /\ \/ now + TickMs <= MaxClock
     \/ \E p \in Procs : Sleeping(p)
  /\ now' = now + TickMs
  /\ UNCHANGED << pc, writeVars, dueVars, retryVars >>
  /\ UNCHANGED schedVars

\* the next step of cycle p: the continuation of the await it is at
CycleStep(p) ==
  \/ CycleRead(p)
  \/ RateWake(p)
  \/ Respond(p)
  \/ BackoffWake(p)
  \/ CycleWriteCall(p)
  \/ WriteResolve(p)
  \/ WriteReadCurrent(p)
  \/ WriteTmpOpen(p)
  \/ WriteTmpFinish(p)
  \/ WriteRename(p)
  \/ WriteChmod(p)
  \/ WriteIoError(p)
  \/ CycleSucceed(p)
  \/ CycleCatch(p)

InitLive ==
  /\ InitIdle
  /\ files = [n \in Names |-> IF n = "hash"
                                THEN Complete(JsonStringify(DaemonRecord))
                                ELSE NoFile]
  /\ pc = [p \in Procs |-> "off"]
  /\ wNew = [p \in Procs |-> NoTokens]
  /\ refreshThreshold = 5000
  /\ dueIn = NoDate
  /\ retryBackoffSeconds = 1
  /\ endpoint = {"ok_rotated", "timeout"}
  /\ lastRequestTime = 0
  /\ requests = << >>
  /\ creds = [p \in Procs |-> NoCreds]
  /\ maxAttempts = [p \in Procs |-> 0]
  /\ isShuttingDown = FALSE
  /\ monitorInterval = None
  /\ consecutiveFailures = 0
  /\ maxRetryAttempts \in {0, 2}
  /\ starter = "off"
  /\ nextFire = 0
  /\ payload = None
  /\ configFile = NoConfigFile

\* the timer starts no cycle after MaxClock
NextLive ==
  \/ StartMonitoring
  \/ StartArm
  \/ StopMonitoring
  \/ \E p \in Procs : now <= MaxClock /\ TimerFire(p)
  \/ \E p \in Procs : CycleStep(p)
  \/ TickOrWait

\* each file operation and each request settles and its continuation runs;
\* the clock reaches the time of every pending sleep
SpecLive ==
  /\ InitLive
  /\ [][NextLive]_vars
  /\ \A p \in Procs : WF_vars(CycleStep(p))
  /\ WF_vars(TickOrWait)

---------------------------------------------------------------------------
(* cache-manager called from outside the daemon: getCacheFilePath,        *)
(* readTokenCache, formatTimeRemaining, getTokenStatus                     *)

\* ~/.aws/config as getSsoStartUrl finds it
AwsConfigs == {"session", "no config file", "no session section",
               "no sso_start_url"}

\* getSsoStartUrl(): the start URL, or the error it throws
GetSsoStartUrl(cfg) ==
  IF cfg = "session"
  THEN [ok |-> TRUE, error |-> NoError]
  ELSE [ok |-> FALSE,
        error |-> CASE cfg = "no config file" -> Error({"AWS config file not found"})
                    [] cfg = "no session section" -> Error({"SSO session", "not found in ~/.aws/config"})
                    [] OTHER -> Error({"sso_start_url not found"})]

\* getCacheFilePath(): the path returned, or the error thrown
NotFoundError == Error(GetReloginErrorMessage({"Cache file not found"}))

GetCacheFilePath(cfg, dir) ==
  IF ~GetSsoStartUrl(cfg).ok
  THEN {[ok |-> FALSE, path |-> None, error |-> GetSsoStartUrl(cfg).error]}
  ELSE IF GetCacheFilePaths(dir) = {}
  THEN {[ok |-> FALSE, path |-> None, error |-> NotFoundError]}
  ELSE {[ok |-> TRUE, path |-> n, error |-> NoError] : n \in GetCacheFilePaths(dir)}

\* readTokenCache(): the record returned, or the error thrown
ReadTokenCacheCall(cfg, dir) ==
  IF ~GetSsoStartUrl(cfg).ok
  THEN {[ok |-> FALSE, rec |-> NoRecord, error |-> GetSsoStartUrl(cfg).error]}
  ELSE {[ok |-> r.ok, rec |-> r.rec,
         error |-> IF r.ok THEN NoError ELSE ReadError(r)] :
           r \in ReadTokenCache(dir)}

\* a rendering that shows the hours also when there are none
FormatTimeRemainingAlwaysHours(expiresAt, t) ==
  LET minutes == GetTimeUntilExpiry(expiresAt, t) \div 60000
      hours == minutes \div 60
  IN IF hours >= 0
     THEN [form |-> "Hh Mm", h |-> hours, m |-> minutes % 60]
     ELSE [form |-> "Mm", h |-> 0, m |-> minutes]

\* formatTimeRemaining(expiresAt): `${hours}h ${minutes % 60}m` if hours > 0,
\* `${minutes}m` otherwise, as the shape of the text and its numbers
FormatTimeRemaining(expiresAt, t) ==
  LET minutes == GetTimeUntilExpiry(expiresAt, t) \div 60000
      hours == minutes \div 60
  IN IF hours > 0
     THEN [form |-> "Hh Mm", h |-> hours, m |-> minutes % 60]
     ELSE [form |-> "Mm", h |-> 0, m |-> minutes]

NoFormat == [form |-> None, h |-> 0, m |-> 0]

\* a status that reports an unreadable cache as still valid
StatusOfStale(r, t) ==
  IF r.ok
  THEN [threw |-> FALSE,
        props |-> {"expiresAt", "timeUntilExpiry", "expired", "needsRefresh",
                   "formattedTimeRemaining"},
        error |-> {},
        expiresAt |-> r.rec.expiresAt,
        timeUntilExpiry |-> GetTimeUntilExpiry(r.rec.expiresAt, t),
        expired |-> GetTimeUntilExpiry(r.rec.expiresAt, t) <= 0,
        needsRefresh |-> ShouldRefresh(r.rec.expiresAt, t),
        formattedTimeRemaining |-> FormatTimeRemaining(r.rec.expiresAt, t)]
  ELSE [threw |-> FALSE, props |-> {"error", "expired", "needsRefresh"},
        error |-> r.error.message, expiresAt |-> NoDate, timeUntilExpiry |-> 0,
        expired |-> FALSE, needsRefresh |-> FALSE,
        formattedTimeRemaining |-> NoFormat]

\* getTokenStatus(), given what readTokenCache() did: the object returned.
\* The catch block reads error.message, which throws for a thrown undefined.
StatusOf(r, t) ==
  IF r.ok
  THEN [threw |-> FALSE,
        props |-> {"expiresAt", "timeUntilExpiry", "expired", "needsRefresh",
                   "formattedTimeRemaining"},
        error |-> {},
        expiresAt |-> r.rec.expiresAt,
        timeUntilExpiry |-> GetTimeUntilExpiry(r.rec.expiresAt, t),
        expired |-> GetTimeUntilExpiry(r.rec.expiresAt, t) <= 0,
        needsRefresh |-> ShouldRefresh(r.rec.expiresAt, t),
        formattedTimeRemaining |-> FormatTimeRemaining(r.rec.expiresAt, t)]
  ELSE [threw |-> ~r.error.defined,
        props |-> IF r.error.defined THEN {"error", "expired", "needsRefresh"} ELSE {},
        error |-> r.error.message, expiresAt |-> NoDate, timeUntilExpiry |-> 0,
        expired |-> TRUE, needsRefresh |-> TRUE,
        formattedTimeRemaining |-> NoFormat]

GetTokenStatus(cfg, dir, t) == {StatusOf(r, t) : r \in ReadTokenCacheCall(cfg, dir)}

\* the calls: each leaves its name, its inputs and what it gave in callOut
GetCacheFilePathCall ==
  /\ \E out \in GetCacheFilePath(payload, files) :
       callOut' = [fn |-> "getCacheFilePath", at |-> now, out |-> out]
  /\ UNCHANGED << now, pc, writeVars, dueVars, retryVars, daemonVars, cleanupSaw,
                  logins, payload, configVars, timerVars, respondedAt >>

ReadCall ==
  /\ \E out \in ReadTokenCacheCall(payload, files) :
       callOut' = [fn |-> "readTokenCache", at |-> now, out |-> out]
  /\ UNCHANGED << now, pc, writeVars, dueVars, retryVars, daemonVars, cleanupSaw,
                  logins, payload, configVars, timerVars, respondedAt >>

FormatCall ==
  /\ dueIn \notin {NoDate, InvalidDate}
  /\ callOut' = [fn |-> "formatTimeRemaining", at |-> now,
                 out |-> FormatTimeRemaining(dueIn, now)]
  /\ UNCHANGED << now, pc, writeVars, dueVars, retryVars, daemonVars, cleanupSaw,
                  logins, payload, configVars, timerVars, respondedAt >>

StatusCall ==
  /\ \E out \in GetTokenStatus(payload, files, now) :
       callOut' = [fn |-> "getTokenStatus", at |-> now, out |-> out]
  /\ UNCHANGED << now, pc, writeVars, dueVars, retryVars, daemonVars, cleanupSaw,
                  logins, payload, configVars, timerVars, respondedAt >>

\* the records a cache file may hold: the login's record, and records with
\* a required field missing, empty, or with a bad expiresAt
StoreRecords ==
  {DaemonRecord}
    \cup {[DaemonRecord EXCEPT ![f] = v] :
            f \in RequiredStrings, v \in {Missing, Empty}}
    \cup {[DaemonRecord EXCEPT !.expiresAt = e] :
            e \in {NoDate, InvalidDate, ClockStart - 1000, ClockStart + 3600000}}
    \cup {[DaemonRecord EXCEPT !.startUrl = Missing]}

StoreFiles(recs) ==
  {NoFile, Partial(JsonStringify(DaemonRecord))}
    \cup {Complete(JsonStringify(r)) : r \in recs}

StoreDirs ==
  { [n \in Names |-> IF n = "hash" THEN h ELSE IF n = "alt" THEN a ELSE b] :
      h \in StoreFiles(StoreRecords),
      a \in StoreFiles({DaemonRecord, OtherSessionRecord,
                        [DaemonRecord EXCEPT !.expiresAt = InvalidDate]}),
      b \in {NoFile, Complete(JsonStringify(DaemonRecord))} }

\* expiresAt - now of the timestamps handed to formatTimeRemaining
FormatOffsets ==
  {0 - 7200000, 0 - 600000, 0 - 1, 0, 59999, 60000, 3599999, 3600000,
   3660000, 8100000}

InitStore ==
  /\ InitIdle
  /\ files \in StoreDirs
  /\ pc = [p \in Procs |-> "off"]
  /\ wNew = [p \in Procs |-> NoTokens]
  /\ refreshThreshold = 5000
  /\ dueIn \in {ClockStart + d : d \in FormatOffsets}
  /\ retryBackoffSeconds = DefaultRetryBackoffSeconds
  /\ endpoint = {}
  /\ lastRequestTime = 0
  /\ creds = [p \in Procs |-> NoCreds]
  /\ maxAttempts = [p \in Procs |-> 0]
  /\ requests = << >>
  /\ isShuttingDown = FALSE
  /\ monitorInterval = None
  /\ consecutiveFailures = 0
  /\ maxRetryAttempts = DefaultMaxRetryAttempts
  /\ starter = "off"
  /\ nextFire = 0
  /\ payload \in AwsConfigs
  /\ configFile = NoConfigFile

NextStore ==
  \/ GetCacheFilePathCall
  \/ ReadCall
  \/ FormatCall
  \/ StatusCall
  \/ Tick

SpecStore == InitStore /\ [][NextStore]_vars

---------------------------------------------------------------------------
(* getTokenStatus() while the clock moves: getTimeUntilExpiry,            *)
(* shouldRefresh and formatTimeRemaining each read Date.now()              *)

\* a summary that takes its readings of the clock in the reverse order
StatusOfReadingsBackwards(r, t1, t2, t3) ==
  IF r.ok
  THEN [threw |-> FALSE, error |-> {},
        expiresAt |-> r.rec.expiresAt,
        timeUntilExpiry |-> GetTimeUntilExpiry(r.rec.expiresAt, t3),
        expired |-> GetTimeUntilExpiry(r.rec.expiresAt, t3) <= 0,
        needsRefresh |-> ShouldRefresh(r.rec.expiresAt, t1),
        formattedTimeRemaining |-> FormatTimeRemaining(r.rec.expiresAt, t2)]
  ELSE [threw |-> ~r.error.defined,
        error |-> r.error.message, expiresAt |-> NoDate, timeUntilExpiry |-> 0,
        expired |-> TRUE, needsRefresh |-> TRUE,
        formattedTimeRemaining |-> NoFormat]

\* getTokenStatus(), given what readTokenCache() did and the three readings
\* of Date.now(): by getTimeUntilExpiry(cache.expiresAt), then inside
\* shouldRefresh(cache.expiresAt), then inside formatTimeRemaining
StatusOfReadings(r, t1, t2, t3) ==
  IF r.ok
  THEN [threw |-> FALSE, error |-> {},
        expiresAt |-> r.rec.expiresAt,
        timeUntilExpiry |-> GetTimeUntilExpiry(r.rec.expiresAt, t1),
        expired |-> GetTimeUntilExpiry(r.rec.expiresAt, t1) <= 0,
        needsRefresh |-> ShouldRefresh(r.rec.expiresAt, t2),
        formattedTimeRemaining |-> FormatTimeRemaining(r.rec.expiresAt, t3)]
  ELSE [threw |-> ~r.error.defined,
        error |-> r.error.message, expiresAt |-> NoDate, timeUntilExpiry |-> 0,
        expired |-> TRUE, needsRefresh |-> TRUE,
        formattedTimeRemaining |-> NoFormat]

\* by how much the clock moves between two readings
ClockAdvances == {0, TickMs}

\* getTokenStatus() is called and returns; the clock has moved meanwhile
StatusReadingsCall ==
  \E a \in ClockAdvances, b \in ClockAdvances :
    /\ now + a + b <= MaxClock
    /\ \E r \in ReadTokenCacheCall(payload, files) :
         callOut' = [fn |-> "getTokenStatus", at |-> now, advance |-> << a, b >>,
                     out |-> StatusOfReadings(r, now, now + a, now + a + b)]
    /\ now' = now + a + b
    /\ UNCHANGED << pc, writeVars, dueVars, retryVars, daemonVars, cleanupSaw,
                    logins, payload, configVars, timerVars, respondedAt >>

\* expiresAt - now, at the start, of the records whose status is asked
StatusOffsets == {0 - TickMs, 0 - 1, 0, 1, 2, TickMs, TickMs + 1, 3600000}

StatusDirs ==
  { [n \in Names |-> IF n = "hash" THEN Complete(JsonStringify(r)) ELSE NoFile] :
      r \in { [DaemonRecord EXCEPT !.expiresAt = ClockStart + d] :
                d \in StatusOffsets }
            \cup { [DaemonRecord EXCEPT !.expiresAt = InvalidDate],
                   [DaemonRecord EXCEPT !.clientId = Missing] } }
  \cup { [n \in Names |-> NoFile] }

InitStatus ==
  /\ InitIdle
  /\ files \in StatusDirs
  /\ pc = [p \in Procs |-> "off"]
  /\ wNew = [p \in Procs |-> NoTokens]
  /\ refreshThreshold \in {1, 2, 1000, 5000, DefaultRefreshThreshold}
  /\ dueIn = NoDate
  /\ retryBackoffSeconds = DefaultRetryBackoffSeconds
  /\ endpoint = {}
  /\ lastRequestTime = 0
  /\ creds = [p \in Procs |-> NoCreds]
  /\ maxAttempts = [p \in Procs |-> 0]
  /\ requests = << >>
  /\ isShuttingDown = FALSE
  /\ monitorInterval = None
  /\ consecutiveFailures = 0
  /\ maxRetryAttempts = DefaultMaxRetryAttempts
  /\ starter = "off"
  /\ nextFire = 0
  /\ payload \in {"session", "no session section"}
  /\ configFile = NoConfigFile

NextStatus ==
  \/ StatusReadingsCall
  \/ Tick

SpecStatus == InitStatus /\ [][NextStatus]_vars

---------------------------------------------------------------------------
(* token-refresher: the message of the error thrown for an HTTP error     *)
(* response                                                                *)

\* const sensitiveFields = [...]
SensitiveFields ==
  {"accessToken", "access_token", "refreshToken", "refresh_token", "token",
   "clientSecret", "client_secret", "secret", "password", "apiKey", "api_key",
   "authorization"}

Redacted == "[REDACTED]"

\* error.response.data: an object, as the set of its properties; a property
\* is at a path (<<name>> at the top, <<name, name>> inside an object that is
\* the value of a top-level property) and holds a string
Entry(path, value) == [path |-> path, value |-> value]

\* sanitizeApiResponse(data): a shallow copy whose own properties named in
\* sensitiveFields are replaced by the marker (an object under such a name
\* is replaced whole); the values of the other properties are left as they
\* are
SanitizeApiResponse(data) ==
  {IF e.path[1] \in SensitiveFields
   THEN Entry(<< e.path[1] >>, Redacted) ELSE e : e \in data}

\* the catch block of refreshToken for error.response = {status, data}:
\* the message of the Error thrown
ErrorMessageOfResponse(status, data) ==
  IF status = 400 /\ Entry(<< "error" >>, "invalid_grant") \in data
  THEN [text |-> GetReloginErrorMessage({"Refresh token is", "invalid or expired"}),
        json |-> {}]
  ELSE IF status = 401
  THEN [text |-> GetReloginErrorMessage({"Client", "credentials are invalid"}),
        json |-> {}]
  ELSE [text |-> {"OIDC API error"}, json |-> SanitizeApiResponse(data)]

\* refreshToken() whose request ends in the HTTP error response of payload
ErrorResponseCall ==
  /\ callOut' = [fn |-> "refreshToken", at |-> now,
                 out |-> ErrorMessageOfResponse(payload.status, payload.data)]
  /\ UNCHANGED << now, pc, writeVars, dueVars, retryVars, daemonVars, cleanupSaw,
                  logins, payload, configVars, timerVars, respondedAt >>

\* the error payloads of the runs: an error code, and optionally
\* credential-shaped properties at the top and inside a nested object
SecretValues == {"secret-A", "secret-B"}

PayloadParts ==
  [accessToken : SecretValues \cup {Missing},
   id_token : SecretValues \cup {Missing},
   nested : SecretValues \cup {Missing},
   code : {"server_error", "invalid_grant"}]

DataOf(part) ==
  {Entry(<< "error" >>, part.code),
   Entry(<< "detail", "hint" >>, "try again")}
    \cup (IF part.accessToken = Missing THEN {}
          ELSE {Entry(<< "accessToken" >>, part.accessToken)})
    \cup (IF part.id_token = Missing THEN {}
          ELSE {Entry(<< "id_token" >>, part.id_token)})
    \cup (IF part.nested = Missing THEN {}
          ELSE {Entry(<< "detail", "refresh_token" >>, part.nested)})

ErrorStatuses == {400, 401, 403, 500}

InitRedact ==
  /\ InitIdle
  /\ files = [n \in Names |-> NoFile]
  /\ pc = [p \in Procs |-> "off"]
  /\ wNew = [p \in Procs |-> NoTokens]
  /\ refreshThreshold = DefaultRefreshThreshold
  /\ dueIn = NoDate
  /\ retryBackoffSeconds = DefaultRetryBackoffSeconds
  /\ endpoint = {}
  /\ lastRequestTime = 0
  /\ creds = [p \in Procs |-> NoCreds]
  /\ maxAttempts = [p \in Procs |-> 0]
  /\ requests = << >>
  /\ isShuttingDown = FALSE
  /\ monitorInterval = None
  /\ consecutiveFailures = 0
  /\ maxRetryAttempts = DefaultMaxRetryAttempts
  /\ starter = "off"
  /\ nextFire = 0
  /\ \E part \in PayloadParts, st \in ErrorStatuses :
       payload = [status |-> st, part |-> part, data |-> DataOf(part)]
  /\ configFile = NoConfigFile

NextRedact == ErrorResponseCall

SpecRedact == InitRedact /\ [][NextRedact]_vars

---------------------------------------------------------------------------
(* readAwsConfig() called while the file is edited and the cache cleared *)

ConfigFiles ==
  {NoConfigFile}
  \cup { [exists |-> TRUE, content |-> text, mtimeMs |-> ClockStart - TickMs] :
           text \in {t \in ConfigTexts : Len(t) = 4 /\ t[2].value = StartUrl} }

InitConfig ==
  /\ InitIdle
  /\ files = [n \in Names |-> NoFile]
  /\ pc = [p \in Procs |-> "off"]
  /\ wNew = [p \in Procs |-> NoTokens]
  /\ refreshThreshold = DefaultRefreshThreshold
  /\ dueIn = NoDate
  /\ retryBackoffSeconds = DefaultRetryBackoffSeconds
  /\ endpoint = {}
  /\ lastRequestTime = 0
  /\ creds = [p \in Procs |-> NoCreds]
  /\ maxAttempts = [p \in Procs |-> 0]
  /\ requests = << >>
  /\ isShuttingDown = FALSE
  /\ monitorInterval = None
  /\ consecutiveFailures = 0
  /\ maxRetryAttempts = DefaultMaxRetryAttempts
  /\ starter = "off"
  /\ nextFire = 0
  /\ payload = None
  /\ configFile \in ConfigFiles

NextConfig ==
  \/ \E r \in Readers : ReadAwsConfigCall(r)
  \/ \E r \in Readers : ConfigAccess(r)
  \/ \E r \in Readers : ConfigStat(r)
  \/ \E r \in Readers : ConfigCheck(r)
  \/ \E r \in Readers : ConfigReadFile(r)
  \/ \E r \in Readers : ConfigParse(r)
  \/ ClearConfigCache
  \/ ConfigWrite
  \/ ConfigRemove
  \/ Tick

SpecConfig == InitConfig /\ [][NextConfig]_vars

---------------------------------------------------------------------------
(* The properties *)

\* C1: writeTokenCache is atomic at the final cache path.  At every step of
\* a write, a crash or an I/O failure included, the file at the resolved
\* path is a complete text, holding either the record from before the write
\* or the merged record; no reader ever fails to read it.
C1_WriteIsAtomic ==
  \A p \in Procs :
    wPath[p] # None =>
      LET before == wPre[p][wPath[p]]
          merged == JsonStringify(MergeTokens(JsonParse(before.text), wNew[p]))
          f == files[wPath[p]]
      IN /\ f.state = "complete"
         /\ f.text \in {before.text, merged}
         /\ readerSaw.saw \in {None, "ok"}

\* the process was killed with the temporary file half written, and the
\* cache was read after that, and read well
C1_Witness ==
  \E p \in Procs :
    /\ pc[p] = "crashed"
    /\ tmp[p].state = "partial"
    /\ readerSaw.saw = "ok"
    /\ "crashed" \in readerSaw.during

\* C2: write followed by read round-trips.  After a successful write,
\* readTokenCache succeeds; clientId, clientSecret, region, startUrl and
\* registrationExpiresAt (and refreshToken when the argument carries none)
\* are as before the write; accessToken and expiresAt (and refreshToken when
\* the argument carries one) are those of the argument.
C2_WriteReadRoundTrip ==
  \A p \in Procs :
    pc[p] = "w_done" =>
      \A r \in ReadTokenCache(files) :
        LET old == JsonParse(wPre[p][wPath[p]].text)
            new == wNew[p]
        IN /\ r.ok
           /\ \A f \in {"clientId", "clientSecret", "region", "startUrl",
                        "registrationExpiresAt"} : r.rec[f] = old[f]
           /\ r.rec.accessToken = new.accessToken
           /\ r.rec.expiresAt = new.expiresAt
           /\ r.rec.refreshToken = IF Truthy(new.refreshToken)
                                   THEN new.refreshToken ELSE old.refreshToken

\* a write without a refresh token has completed on a record found by the
\* directory scan, which has a region and no registrationExpiresAt
C2_Witness ==
  \E p \in Procs :
    /\ pc[p] = "w_done"
    /\ wNew[p].refreshToken = Missing
    /\ wPath[p] = "alt"
    /\ JsonParse(files["alt"].text).refreshToken = "rt0"
    /\ JsonParse(files["alt"].text).accessToken = "at1"
    /\ JsonParse(files["alt"].text).region = "ca-central-1"
    /\ JsonParse(files["alt"].text).registrationExpiresAt = Missing

\* C4: shouldRefresh(expiresAt) is true exactly when expiresAt - now <=
\* refreshThreshold: true at exactly the threshold, true (with a negative
\* getTimeUntilExpiry) for a past expiresAt, false beyond the threshold.
C4_DueIffWithinThreshold ==
  dueOut.called =>
    LET left == dueIn - dueOut.at IN
    /\ dueOut.timeUntilExpiry = left
    /\ dueOut.due <=> (left <= refreshThreshold)
    /\ (left = refreshThreshold) => dueOut.due
    /\ (dueIn < dueOut.at) => (dueOut.due /\ dueOut.timeUntilExpiry < 0)
    /\ (left > refreshThreshold) => ~dueOut.due

\* shouldRefresh was called with exactly the threshold left, and said yes
C4_Witness ==
  /\ dueOut.called
  /\ dueIn - dueOut.at = refreshThreshold
  /\ dueOut.due
  /\ dueOut.timeUntilExpiry > 0

\* the replies of the endpoint, by what the specification calls them
SuccessReplies == {"ok_rotated", "ok_same", "ok_empty_rt"}
InvalidReplies == {"ok_no_access", "ok_no_expiry"}
RetryableReplies == {"refused", "dns", "timeout", "server_error"}
FatalReplies == {"invalid_grant", "forbidden", "unauthorized", "canceled"}

\* the number of requests process p has sent
Attempts(p) == Cardinality({i \in DOMAIN requests : requests[i].by = p})

\* C3: a successful exchange returns the rotated refresh token when the
\* response carries one and the refresh token of the credentials otherwise;
\* the returned refresh token is never absent, and merging the outcome into
\* the cache never leaves the record without its refresh token.
C3_RefreshTokenKept ==
  \A p \in Procs :
    pc[p] = "returned" =>
      LET o == OutcomeOf(hist[p][Len(hist[p])])
          cached == [NoRecord EXCEPT !.refreshToken = creds[p].refreshToken]
      IN /\ result[p].refreshToken =
              IF Truthy(o.refreshToken) THEN o.refreshToken
              ELSE creds[p].refreshToken
         /\ Truthy(result[p].refreshToken)
         /\ Truthy(MergeTokens(cached, result[p]).refreshToken)

\* an exchange succeeded on a response without a refresh token, and one on
\* a response with an empty one: the prior token came back
C3_Witness ==
  \E p \in Procs :
    /\ pc[p] = "returned"
    /\ hist[p][Len(hist[p])] \in {"ok_same", "ok_empty_rt"}
    /\ result[p].refreshToken = "rt0"

\* C5: after N-1 retryable failures and then a success, N <= maxAttempts,
\* refreshTokenWithRetry has made exactly N requests and returns the outcome
\* of the N-th; it never gives up on a retryable failure while attempts
\* remain.
C5_RetryUntilSuccess ==
  \A p \in Procs :
    /\ \A n \in 1 .. Len(hist[p]) :
         ( /\ n <= maxAttempts[p]
           /\ \A i \in 1 .. n - 1 : hist[p][i] \in RetryableReplies
           /\ hist[p][n] \in SuccessReplies )
         => /\ Len(hist[p]) = n
            /\ Attempts(p) = n
            /\ attempt[p] = n
            /\ pc[p] = "returned"
            /\ result[p].accessToken = OutcomeOf(hist[p][n]).accessToken
            /\ result[p].expiresIn = OutcomeOf(hist[p][n]).expiresIn
    /\ ( /\ pc[p] = "thrown"
         /\ \A i \in 1 .. Len(hist[p]) : hist[p][i] \in RetryableReplies )
       => Len(hist[p]) = maxAttempts[p]

\* two retryable failures, then a success on the third and last attempt
C5_Witness ==
  \E p \in Procs :
    /\ maxAttempts[p] = 3
    /\ Len(hist[p]) = 3
    /\ hist[p][1] = "timeout"
    /\ hist[p][2] = "server_error"
    /\ hist[p][3] = "ok_rotated"
    /\ pc[p] = "returned"
    /\ Attempts(p) = 3

\* C6: a fatal failure (invalid grant, invalid client credentials,
\* cancellation) at attempt k ends refreshTokenWithRetry at once: that error
\* is thrown, no request k+1 is made and no backoff wait follows.
C6_FatalStopsAtOnce ==
  \A p \in Procs :
    \A k \in 1 .. Len(hist[p]) :
      hist[p][k] \in FatalReplies =>
        /\ Len(hist[p]) = k
        /\ Attempts(p) = k
        /\ pc[p] = "thrown"
        /\ lastError[p] = ErrorOfFailure(OutcomeOf(hist[p][k]))
        /\ Len(sleeps[p]) = k - 1

\* a cancellation at the second of three attempts, and nothing after it
C6_Witness ==
  \E p \in Procs :
    /\ maxAttempts[p] = 3
    /\ hist[p] = << "timeout", "canceled" >>
    /\ pc[p] = "thrown"
    /\ Attempts(p) = 2
    /\ now >= failedAt[p] + BackoffMs(2)

\* C7: when all maxAttempts attempts fail with retryable failures,
\* refreshTokenWithRetry has made exactly maxAttempts requests and throws
\* the error of the last one; it returns nothing.
C7_ExhaustedThrowsLast ==
  \A p \in Procs :
    ( /\ pc[p] \in {"returned", "thrown"}
      /\ maxAttempts[p] >= 1
      /\ \A i \in 1 .. Len(hist[p]) : hist[p][i] \in RetryableReplies )
    => /\ pc[p] = "thrown"
       /\ Len(hist[p]) = maxAttempts[p]
       /\ Attempts(p) = maxAttempts[p]
       /\ lastError[p] = ErrorOfFailure(OutcomeOf(hist[p][maxAttempts[p]]))
       /\ result[p] = NoTokens

\* two timeouts and a refused connection with the default of 3 attempts
C7_Witness ==
  \E p \in Procs :
    /\ maxAttempts[p] = DefaultMaxRetryAttempts
    /\ hist[p] = << "timeout", "timeout", "refused" >>
    /\ pc[p] = "thrown"
    /\ lastError[p] = Error({"Network error"})

C9_InvalidResponseIsFatal ==
  \A p \in Procs :
    \A k \in 1 .. Len(hist[p]) :
      hist[p][k] \in InvalidReplies =>
        /\ Len(hist[p]) = k
        /\ Attempts(p) = k
        /\ pc[p] = "thrown"

\* C10: any two requests to the endpoint are at least
\* MIN_REQUEST_INTERVAL_MS apart.
C10_MinimumSpacing ==
  \A i, j \in DOMAIN requests :
    i < j => requests[j].at - requests[i].at >= MIN_REQUEST_INTERVAL_MS


\* C11: cleanup() aborts every outstanding exchange call; the aborted call
\* ends as the fatal "canceled due to shutdown" error, not as a retryable
\* network error, and refreshTokenWithRetry sends nothing after it.
C11_CleanupCancelsOutstanding ==
  \A p \in cleanupSaw :
    IF pc[p] = "in_flight"
    THEN p \in aborted
    ELSE /\ pc[p] = "thrown"
         /\ hist[p][Len(hist[p])] = "canceled"
         /\ lastError[p] = Error({"Token refresh", "canceled due to shutdown"})
         /\ Attempts(p) = Len(hist[p])

\* C12: once stopMonitoring() has been called, no request is sent to the
\* endpoint any more, wherever the cycle was when it was called.
C12_NoRequestAfterStop ==
  Len(stops) > 0 => Len(requests) = stops[1].sent

C14_ImmediateCycleThenTimer ==
  /\ [](starter = "initial" => monitorInterval = None)
  /\ []((starter = "initial" /\ report[InitialCycle].ended # None)
          => ENABLED StartArm)
  /\ [][ (monitorInterval = None /\ monitorInterval' = "armed")
           => /\ report[InitialCycle].ended # None
              /\ pc[InitialCycle] \in {"c_done", "c_threw"}
              /\ starter = "initial" /\ starter' = "running" ]_vars

\* the timer is armed after an immediate cycle that threw, and after one
\* that failed and reported the failure
C14_Witness ==
  /\ starter = "running"
  /\ monitorInterval = "armed"
  /\ report[InitialCycle].ended = "threw"
  /\ consecutiveFailures = 1

\* C15: refreshTokenIfNeeded never throws: whatever read, exchange and write
\* do, the cycle returns normally with the outcome reported.
C15_CycleNeverThrows ==
  \A p \in Procs :
    /\ pc[p] # "c_threw"
    /\ report[p].ended # "threw"
    /\ pc[p] = "c_done" => report[p].said # None

\* C16: a cycle that reads the cached credential and finds more than
\* refreshThreshold left sets consecutiveFailures to 0 and returns: it sends
\* no request, starts no write, and leaves the cache directory as it is.
C16_NotDueCycleDoesNothing ==
  [][ \A p \in Procs :
        ( /\ pc[p] = "c_read" /\ pc'[p] # "c_read"
          /\ \A r \in ReadTokenCache(files) :
               r.ok /\ r.rec.expiresAt - now > refreshThreshold )
        => /\ consecutiveFailures' = 0
           /\ pc'[p] = "c_done"
           /\ report'[p] = [ended |-> "returned", said |-> "not-due"]
           /\ requests' = requests
           /\ files' = files
           /\ wPath'[p] = None /\ tmp'[p] = NoFile
           /\ hist'[p] = << >> ]_vars

\* a cycle found the credential not due: the one an earlier cycle had
\* refreshed
C16_Witness ==
  \E p \in Procs :
    /\ report[p].said = "not-due"
    /\ pc[p] = "c_done"
    /\ JsonParse(files["hash"].text).accessToken = "at1"
    /\ Len(requests) = 1
    /\ consecutiveFailures = 0

\* C17: in a cycle whose credential is due and whose exchange succeeds with
\* expiresIn = E, the tokens returned carry expiresAt = (time of the
\* response) + E seconds; the write puts that expiresAt and the new
\* accessToken into the cache file and keeps clientId and clientSecret; and
\* the cycle ends with consecutiveFailures = 0.
C17_SuccessfulCycle ==
  [][ \A p \in Procs :
        /\ (pc[p] = "in_flight" /\ pc'[p] = "returned")
             => LET o == OutcomeOf(hist'[p][Len(hist'[p])]) IN
                /\ result'[p].expiresAt = now + o.expiresIn * 1000
                /\ result'[p].accessToken = o.accessToken
        /\ (report[p].ended = None /\ pc[p] = "w_tmp_done" /\ pc'[p] = "w_renamed")
             => LET rec == JsonParse(files'[wPath[p]].text)
                    old == JsonParse(wPre[p][wPath[p]].text) IN
                /\ files'[wPath[p]].state = "complete"
                /\ rec.expiresAt = result[p].expiresAt
                /\ rec.accessToken = result[p].accessToken
                /\ rec.clientId = old.clientId /\ rec.clientId = creds[p].clientId
                /\ rec.clientSecret = old.clientSecret
                /\ rec.clientSecret = creds[p].clientSecret
        /\ (pc[p] = "w_done" /\ pc'[p] # "w_done")
             => /\ consecutiveFailures' = 0
                /\ report'[p] = [ended |-> "returned", said |-> "refreshed"]
    ]_vars

\* a cycle refreshed the credential after the cycle before it had failed
\* with two timeouts (consecutiveFailures was 1)
C17_Witness ==
  \E p \in Procs :
    /\ report[p].said = "refreshed"
    /\ hist[p] = << "ok_rotated" >>
    /\ Len(requests) = 3
    /\ consecutiveFailures = 0
    /\ JsonParse(files["hash"].text).expiresAt = requests[3].at + 3600 * 1000
    /\ JsonParse(files["hash"].text).clientId = "cid"

\* the replies the specification calls Fatal-Grant: the refresh token is
\* invalid or expired, or the client credentials are invalid
FatalGrantReplies == {"invalid_grant", "unauthorized"}

\* C18: a cycle whose exchange gets a Fatal-Grant reply, of either kind,
\* makes no further attempt and reports relogin-required, not a generic
\* refresh failure.
C18_FatalGrantReportsRelogin ==
  \A p \in Procs :
    \A k \in 1 .. Len(hist[p]) :
      hist[p][k] \in FatalGrantReplies =>
        /\ Len(hist[p]) = k
        /\ pc[p] \in {"thrown", "c_done"}
        /\ pc[p] = "c_done" => report[p] = [ended |-> "returned",
                                            said |-> "relogin-required"]

\* the ways a cycle reports a failure
FailureReports == {"error", "relogin-required", "TypeError"}

\* C19: a cycle that fails adds exactly 1 to consecutiveFailures, whether
\* its retry loop made one attempt or maxAttempts; the steps of the retry
\* loop themselves (a response, a backoff, a rate-limit wait) never change
\* the counter.
C19_OneFailurePerCycle ==
  [][ \A p \in Procs :
        /\ (report[p].ended = None /\ report'[p].said \in FailureReports)
             => consecutiveFailures' = consecutiveFailures + 1
        /\ (pc[p] \in {"thrown", "w_failed"} /\ pc'[p] # pc[p])
             => /\ report'[p].said \in FailureReports
                /\ consecutiveFailures' = consecutiveFailures + 1
        /\ (pc[p] \in {"in_flight", "backoff", "rate_sleep"} /\ pc'[p] # pc[p])
             => consecutiveFailures' = consecutiveFailures
    ]_vars

\* a cycle failed after two attempts, and the counter stands at 1
C19_Witness ==
  \E p \in Procs :
    /\ hist[p] = << "timeout", "timeout" >>
    /\ report[p].said = "error"
    /\ Len(requests) = 2
    /\ consecutiveFailures = 1

\* C20: a cycle whose exchange fails (fatal, cancelled, invalid response, or
\* retries exhausted) never starts a write and leaves the cache directory as
\* it was: a file changes only in the write of a cycle whose exchange
\* returned tokens.
C20_FailedExchangeLeavesCache ==
  /\ [](\A p \in Procs :
          (pc[p] = "thrown" \/ (report[p].said \in FailureReports /\ hist[p] # << >>
                                /\ hist[p][Len(hist[p])] \notin SuccessReplies))
            => /\ wPath[p] = None /\ tmp[p] = NoFile /\ wNew[p] = NoTokens
               /\ result[p] = NoTokens)
  /\ [][ files' # files =>
           \E p \in Procs :
             /\ pc[p] = "w_tmp_done" /\ pc'[p] = "w_renamed"
             /\ hist[p] # << >>
             /\ hist[p][Len(hist[p])] \in SuccessReplies ]_vars

\* a cycle ended after two invalid responses, and the file is the one the
\* login left
C20_Witness ==
  \E p \in Procs :
    /\ hist[p] = << "ok_no_access", "ok_no_access" >>
    /\ report[p].said = "error"
    /\ files["hash"] = Complete(JsonStringify(DaemonRecord))

\* C21: over any sequence of cycles a warning is emitted exactly when
\* consecutiveFailures reaches MAX_CONSECUTIVE_FAILURES: one in the step that
\* takes the counter to the maximum, none in any other step (the later
\* failures of the streak, the resets), and one again when the counter
\* reaches the maximum anew.
C21_OneWarningPerCrossing ==
  [][ warned' = IF /\ consecutiveFailures' = MAX_CONSECUTIVE_FAILURES
                   /\ consecutiveFailures # MAX_CONSECUTIVE_FAILURES
                THEN warned + 1 ELSE warned ]_vars

\* C22: failures never stop the scheduler.  The timer, once armed, is
\* disarmed by stopMonitoring() only; whatever consecutiveFailures has
\* reached, a due timer starts another cycle as soon as the cycle before it
\* has ended; and that cycle reads the cache and, finding the credential
\* due, enters the exchange.
C22_FailuresNeverStopScheduler ==
  /\ [][ (monitorInterval = "armed" /\ monitorInterval' # "armed")
           => Len(stops') > Len(stops) ]_vars
  /\ []( (monitorInterval = "armed" /\ now >= nextFire /\ \A q \in Procs : Ended(q))
           => ENABLED (\E p \in Procs : TimerFire(p)) )
  /\ [][ \A p \in Procs :
           /\ (Ended(p) /\ ~Ended(p)' /\ starter = "running" /\ ~isShuttingDown)
                => pc'[p] = "c_read"
           /\ ( /\ pc[p] = "c_read" /\ pc'[p] # "c_read"
                /\ maxRetryAttempts >= 1
                /\ \A r \in ReadTokenCache(files) :
                     r.ok /\ r.rec.expiresAt - now <= refreshThreshold )
                => /\ pc'[p] \in {"in_flight", "rate_sleep"}
                   /\ calledAt'[p] = now
                   /\ consecutiveFailures' = consecutiveFailures ]_vars

\* after seven failed cycles in a row the timer is armed and the eighth
\* cycle has its request at the endpoint
C22_Witness ==
  \E p \in Procs :
    /\ consecutiveFailures = 7
    /\ warned = 1
    /\ monitorInterval = "armed"
    /\ pc[p] = "in_flight"
    /\ Len(stops) = 0

\* what the texts of the directory say, read off the files themselves: the
\* files getCacheFilePath may resolve to, and whether the text of a file is
\* a usable credential
ResolvesTo ==
  IF files["hash"].state # "absent" THEN {"hash"}
  ELSE {n \in Names : /\ files[n].state = "complete"
                      /\ "startUrl" \in DOMAIN files[n].text
                      /\ files[n].text["startUrl"] = StartUrl}

UsableText(f) ==
  /\ f.state = "complete"
  /\ \A k \in RequiredStrings : k \in DOMAIN f.text /\ f.text[k] # Empty
  /\ "expiresAt" \in DOMAIN f.text
  /\ f.text["expiresAt"] # InvalidDate

\* C23: getTokenStatus() never throws.  When the read fails (no session
\* configuration, no cache file, an unparsable file, a required field
\* missing or empty, a bad expiresAt) it returns {error, expired: true,
\* needsRefresh: true} with the text of the error; when the read succeeds it
\* returns expiresAt, timeUntilExpiry = expiresAt - now, expired =
\* (timeUntilExpiry <= 0), needsRefresh = (timeUntilExpiry <=
\* refreshThreshold) and the formatted remaining time.
C23_StatusNeverThrows ==
  callOut.fn = "getTokenStatus" =>
    LET o == callOut.out
    IN /\ ~o.threw
       /\ IF payload # "session" \/ ResolvesTo = {}
          THEN /\ o.props = {"error", "expired", "needsRefresh"}
               /\ o.expired /\ o.needsRefresh /\ o.error # {}
          ELSE \E n \in ResolvesTo :
                 IF UsableText(files[n])
                 THEN /\ o.props = {"expiresAt", "timeUntilExpiry", "expired",
                                    "needsRefresh", "formattedTimeRemaining"}
                      /\ o.expiresAt = files[n].text["expiresAt"]
                      /\ o.timeUntilExpiry = o.expiresAt - callOut.at
                      /\ o.expired = (o.timeUntilExpiry <= 0)
                      /\ o.needsRefresh = (o.timeUntilExpiry <= refreshThreshold)
                      /\ o.formattedTimeRemaining
                           = FormatTimeRemaining(o.expiresAt, callOut.at)
                      /\ o.formattedTimeRemaining.form \in {"Mm", "Hh Mm"}
                 ELSE /\ o.props = {"error", "expired", "needsRefresh"}
                      /\ o.expired /\ o.needsRefresh /\ o.error # {}

\* the status of a cache whose expiresAt is no timestamp
C23_Witness ==
  /\ callOut.fn = "getTokenStatus"
  /\ "invalid expiry date" \in callOut.out.error
  /\ callOut.out.expired /\ callOut.out.needsRefresh
  /\ ~callOut.out.threw

\* C24: a cycle works only with a record that has the five required fields
\* and a valid expiresAt: the credentials of its exchange come from such a
\* record, and the record its write merges the new tokens into is such a
\* record.
C24_OnlyValidRecordsUsed ==
  \A p \in Procs :
    /\ pc[p] \in {"rate_sleep", "in_flight", "backoff", "returned"}
         => \A f \in {"clientId", "clientSecret", "refreshToken"} : Truthy(creds[p][f])
    /\ pc[p] \in {"w_merged", "w_tmp_open", "w_tmp_done", "w_renamed", "w_done"}
         => /\ MissingRequired(wCur[p]) = {}
            /\ wCur[p].expiresAt # InvalidDate

\* C25: getCacheFilePath() returns the path named by the hash of the start
\* URL whenever a file is there; if none is there, it returns a file of the
\* directory that can be read and parsed and whose startUrl is the session's
\* start URL, when there is one; and it fails with the "Cache file not
\* found" error and the re-login hint exactly when there is neither.
C25_ResolveCachePath ==
  (callOut.fn = "getCacheFilePath" /\ payload = "session") =>
    LET o == callOut.out
        matching == {n \in Names : /\ files[n].state = "complete"
                                   /\ "startUrl" \in DOMAIN files[n].text
                                   /\ files[n].text["startUrl"] = StartUrl}
    IN /\ files["hash"].state # "absent" => (o.ok /\ o.path = "hash")
       /\ (files["hash"].state = "absent" /\ matching # {})
            => (o.ok /\ o.path \in matching)
       /\ ~o.ok <=> (files["hash"].state = "absent" /\ matching = {})
       /\ ~o.ok => (o.error = NotFoundError /\ ReloginHint \in o.error.message)

\* the hash-named file is absent and the path comes from the scan, which
\* skipped a file that does not parse
C25_Witness ==
  /\ callOut.fn = "getCacheFilePath"
  /\ payload = "session"
  /\ files["hash"].state = "absent"
  /\ files["alt"].state = "partial"
  /\ callOut.out.ok /\ callOut.out.path = "alt2"

\* C29: with remaining = expiresAt - now, formatTimeRemaining renders
\* "Hh Mm" with H = whole hours >= 1 and M = the minutes left over, in
\* 0..59, when at least 60 minutes remain, and "Mm" with M = whole minutes
\* (rounded down) when less than 60 minutes remain; for an expiresAt in the
\* past it renders "Mm" with a negative M and does not throw.
C29_FormatRemaining ==
  callOut.fn = "formatTimeRemaining" =>
    LET o == callOut.out
        remaining == dueIn - callOut.at
    IN /\ remaining >= 60 * 60000
            => /\ o.form = "Hh Mm"
               /\ o.h >= 1 /\ o.m \in 0 .. 59
               /\ (o.h * 60 + o.m) * 60000 <= remaining
               /\ remaining < (o.h * 60 + o.m + 1) * 60000
       /\ remaining < 60 * 60000
            => /\ o.form = "Mm"
               /\ o.m * 60000 <= remaining
               /\ remaining < (o.m + 1) * 60000
       /\ remaining < 0 => (o.form = "Mm" /\ o.m < 0)

\* two hours and fifteen minutes at the start, rendered again a tick later
C29_Witness ==
  /\ callOut.fn = "formatTimeRemaining"
  /\ dueIn - callOut.at = 8100000 - TickMs
  /\ callOut.out = [form |-> "Hh Mm", h |-> 2, m |-> 14]

\* the properties of a payload whose name is that of a token, a secret or a
\* password
CredentialShaped(data) ==
  {e \in data : e.path[Len(e.path)] \in {"accessToken", "id_token", "refresh_token"}}

\* C26: when the payload of an error response has a property named like a
\* token, secret or password, at the top or inside a nested object, the
\* message of the error refreshToken throws for it holds the marker
\* [REDACTED] and not the value of that property; and a payload that differs
\* only in the values of such properties gives the same message.
C26_ErrorPayloadRedacted ==
  callOut.fn = "refreshToken" =>
    LET o == callOut.out
        shown == {e.value : e \in o.json}
    IN /\ CredentialShaped(payload.data) # {}
            => /\ Redacted \in shown
               /\ \A e \in CredentialShaped(payload.data) : e.value \notin shown
       /\ \A part \in PayloadParts :
            (\A k \in {"accessToken", "id_token", "nested"} :
               (part[k] = Missing) <=> (payload.part[k] = Missing))
            /\ part.code = payload.part.code
            => ErrorMessageOfResponse(payload.status, DataOf(part)) = o

\* the positions of a cycle inside writeTokenCache
WritePositions == {"w_call", "w_resolved", "w_merged", "w_tmp_open",
                   "w_tmp_done", "w_renamed"}

\* C27: at any time at most one cycle is in progress, also when the
\* response or the retries of a cycle outlast the check interval, and so
\* never are two writeTokenCache calls of the process in progress at once.
C27_OneCycleAtATime ==
  /\ Cardinality({p \in Procs : ~Ended(p)}) <= 1
  /\ Cardinality({p \in Procs : pc[p] \in WritePositions}) <= 1

\* C28: whatever the login tool does to the cache file while a cycle runs,
\* the record the cycle puts into the file holds the new tokens together
\* with the client registration (clientId, clientSecret) of the record
\* version whose refresh token the cycle sent to the endpoint: it never
\* joins the tokens obtained with one version to the fields of another.
C28_ExternalRewriteNotMixed ==
  [][ \A p \in Procs :
        (pc[p] = "w_tmp_done" /\ pc'[p] = "w_renamed")
          => LET rec == JsonParse(files'[wPath[p]].text) IN
             /\ rec.accessToken = result[p].accessToken
             /\ rec.clientId = creds[p].clientId
             /\ rec.clientSecret = creds[p].clientSecret ]_vars

\* C30: a cycle does its steps in the order read, shouldRefresh, exchange,
\* write, report.  It enters the exchange only in the step that ends a
\* successful read of a due credential, and with the credentials of that
\* record; it calls writeTokenCache only when its own exchange has returned
\* tokens, and with those tokens; and it reports "refreshed" only in the
\* step after its write has returned.
C30_OrderWithinCycle ==
  [][ \A p \in Procs :
        /\ (hist[p] = << >> /\ calledAt[p] = 0 /\ calledAt'[p] # 0)
             => /\ pc[p] = "c_read"
                /\ \E r \in ReadTokenCache(files) :
                     /\ r.ok
                     /\ r.rec.expiresAt - now <= refreshThreshold
                     /\ creds'[p] = [clientId |-> r.rec.clientId,
                                     clientSecret |-> r.rec.clientSecret,
                                     refreshToken |-> r.rec.refreshToken]
        /\ (pc[p] # "w_call" /\ pc'[p] = "w_call")
             => /\ pc[p] = "returned"
                /\ hist[p] # << >>
                /\ hist[p][Len(hist[p])] \in SuccessReplies
                /\ wNew'[p] = result[p]
                /\ result[p].accessToken = OutcomeOf(hist[p][Len(hist[p])]).accessToken
        /\ (pc[p] \in WritePositions \cup {"w_done"})
             => /\ report[p] = NoReport
                /\ wNew[p] = result[p]
        /\ (report[p].said # "refreshed" /\ report'[p].said = "refreshed")
             => /\ pc[p] = "w_done"
                /\ JsonParse(files[wPath[p]].text).accessToken = wNew[p].accessToken
    ]_vars

\* a cycle has read, exchanged (the second attempt succeeding), written and
\* reported
C30_Witness ==
  \E p \in Procs :
    /\ report[p] = [ended |-> "returned", said |-> "refreshed"]
    /\ hist[p] = << "timeout", "ok_same" >>
    /\ JsonParse(files["hash"].text).accessToken = "at1"
    /\ JsonParse(files["hash"].text).refreshToken = "rt0"
    /\ Len(requests) = 2

ArmedTimers == (IF monitorInterval = "armed" THEN 1 ELSE 0) + Len(strayTimers)

\* C32: the scheduler is Idle (no timer) or Running (one timer): whatever
\* start() and stop() calls have been made, at most one periodic timer is
\* armed, and when monitorInterval has been cleared by stop() none is.
C32_IdleOrRunning ==
  /\ ArmedTimers <= 1
  /\ monitorInterval = None => ArmedTimers = 0

\* C33: when stop() arrives while start() awaits its immediate cycle (the
\* cycle was entered with the flag clear, and the flag is set when the
\* cycle has settled), start() does not arm the timer.
C33_NoTimerAfterStopDuringStart ==
  [][(/\ starter = "initial" /\ starter' = "running"
      /\ isShuttingDown
      /\ report[InitialCycle].said # "skipped")
     => monitorInterval' = None]_vars

\* C34: the shutdown flag is never cleared, and a cycle invoked while it is
\* set (by a timer, by a direct call, by a later start) has returned at
\* once as skipped: it never gets to the cache read, and when no earlier
\* cycle is still in flight nothing is read, sent, written, reported as an
\* outcome or counted.
C34_ShutdownFlagMonotonic ==
  [][/\ isShuttingDown => isShuttingDown'
     /\ \A p \in Procs :
          (isShuttingDown /\ Ended(p)) =>
             /\ pc'[p] \in {"off", "c_done", "c_threw"}
             /\ (pc'[p] # pc[p] \/ report'[p] # report[p]) =>
                  (pc'[p] = "c_done" /\ report'[p] = [ended |-> "returned",
                                                      said |-> "skipped"])
     /\ (isShuttingDown /\ \A p \in Procs : Ended(p)) =>
          UNCHANGED << files, requests, lastRequestTime, abortController,
                       consecutiveFailures, warned >>
    ]_vars

\* a first run has sent a request and was stopped; a later start() has run
\* its immediate cycle, which was skipped, and has armed a timer
C34_Witness ==
  /\ isShuttingDown
  /\ starts = 2
  /\ starter = "running"
  /\ Len(stops) = 1
  /\ stops[1].timer = "armed"
  /\ report[InitialCycle] = [ended |-> "returned", said |-> "skipped"]
  /\ monitorInterval = "armed"
  /\ Len(requests) > 0

\* C35: when writeTokenCache has thrown, at whatever step, the cache
\* directory is as it was when the write was called: the file at the final
\* path has changed only if the write returned success.
C35_FailedWriteLeavesFile ==
  \A p \in Procs : pc[p] = "w_failed" => files = wPre[p]

\* C36: a cycle whose exchange succeeded and whose cache write failed is a
\* failed cycle: no refresh has been reported while the write was failing,
\* and the catch block adds 1 to consecutiveFailures and reports an error.
C36_FailedWriteIsFailure ==
  [][ \A p \in Procs :
        (pc[p] = "w_failed" /\ pc'[p] # "w_failed") =>
           /\ hist[p][Len(hist[p])] \in SuccessReplies
           /\ report[p].said # "refreshed"
           /\ consecutiveFailures' = consecutiveFailures + 1
           /\ pc'[p] = "c_done"
           /\ report'[p] = [ended |-> "returned", said |-> "error"]
    ]_vars

\* a cycle ended in an error after a successful exchange, following
\* another failed cycle
C36_Witness ==
  \E p \in Procs :
    /\ pc[p] = "c_done"
    /\ report[p].said = "error"
    /\ hist[p] = << "ok_rotated" >>
    /\ result[p].accessToken # NoTokens.accessToken
    /\ consecutiveFailures = 2

\* C37: every result of getTokenStatus() that says expired also says
\* needsRefresh, on the error path and on the successful-read path, for a
\* positive refreshThreshold and whatever the clock advanced by between the
\* readings inside the call.
C37_ExpiredImpliesRefreshDue ==
  (callOut.fn = "getTokenStatus" /\ refreshThreshold > 0 /\ ~callOut.out.threw) =>
     (callOut.out.expired => callOut.out.needsRefresh)

\* the credential expired exactly at the first reading, the clock moved
\* before the second, and the result says expired and needsRefresh
C37_Witness ==
  /\ callOut.fn = "getTokenStatus"
  /\ callOut.out.error = {}
  /\ callOut.out.timeUntilExpiry = 0
  /\ callOut.advance = << TickMs, 0 >>
  /\ refreshThreshold = 1
  /\ callOut.out.expired /\ callOut.out.needsRefresh

\* the lifetime, in ms, of the tokens the endpoint hands out
RefreshedLifetime == OutcomeOf("ok_rotated").expiresIn * 1000

\* C38: once a refresh has put the tokens of its response into the cache
\* (expiresIn above the threshold, nobody else writing the cache), a cycle
\* that reads the cache while less than expiresIn - refreshThreshold has
\* passed since that response finds the credential not due: it ends there,
\* no request is sent, and the failure count is reset.
C38_NoRedundantRefresh ==
  [][ \A p \in Procs :
        ( /\ pc[p] = "c_read" /\ pc'[p] # "c_read"
          /\ respondedAt > 0
          /\ logins = 0
          /\ files["hash"].state = "complete"
          /\ JsonParse(files["hash"].text).accessToken = "at1"
          /\ JsonParse(files["hash"].text).expiresAt
               = respondedAt + RefreshedLifetime
          /\ RefreshedLifetime > refreshThreshold
          /\ now - respondedAt < RefreshedLifetime - refreshThreshold )
        => /\ pc'[p] = "c_done"
           /\ report'[p] = [ended |-> "returned", said |-> "not-due"]
           /\ requests' = requests
           /\ consecutiveFailures' = 0
    ]_vars

\* two ticks after the response of a refresh, with a window of three, a
\* cycle has found the credential not due
C38_Witness ==
  \E p \in Procs :
    /\ report[p].said = "not-due"
    /\ JsonParse(files["hash"].text).accessToken = "at1"
    /\ Len(requests) = 1
    /\ refreshThreshold = 3600000 - 3 * TickMs
    /\ respondedAt > 0
    /\ now - respondedAt = 2 * TickMs

\* C39: a call of refreshTokenWithRetry that has ended made at least 1 and at
\* most maxAttempts attempts, fewer than maxAttempts only when its last
\* attempt succeeded or failed fatally, and it ended either returning the
\* tokens of its last attempt or throwing the error of its last attempt,
\* never a missing error value.
C39_AttemptsAndOutcome ==
  \A p \in Procs :
    pc[p] \in {"returned", "thrown"} =>
      /\ 1 <= Len(hist[p])
      /\ Len(hist[p]) <= maxAttempts[p]
      /\ Attempts(p) = Len(hist[p])
      /\ Len(hist[p]) < maxAttempts[p] =>
           hist[p][Len(hist[p])] \in SuccessReplies \cup FatalReplies
      /\ pc[p] = "returned" =>
           /\ hist[p][Len(hist[p])] \in SuccessReplies
           /\ result[p].accessToken
                = OutcomeOf(hist[p][Len(hist[p])]).accessToken
      /\ pc[p] = "thrown" =>
           /\ lastError[p].defined
           /\ lastError[p] = FailureOf(OutcomeOf(hist[p][Len(hist[p])]))

\* C40: a cycle that has started ends, with every file operation and every
\* request settling, whether or not stopMonitoring() is called meanwhile;
\* and a cycle never has more than maxRetryAttempts attempts behind it, nor
\* more than maxRetryAttempts - 1 backoff waits (none when maxRetryAttempts
\* is 0).
C40_CycleTerminates ==
  /\ [](\A p \in Procs :
          /\ Len(hist[p]) <= maxRetryAttempts
          /\ Len(sleeps[p]) <= IF maxRetryAttempts >= 1
                               THEN maxRetryAttempts - 1 ELSE 0)
  /\ \A p \in Procs : (~Ended(p)) ~> Ended(p)

\* a cycle has ended after two attempts and one backoff wait, with
\* stopMonitoring() called while it was waiting
C40_Witness ==
  \E p \in Procs :
    /\ Ended(p)
    /\ maxRetryAttempts = 2
    /\ Len(hist[p]) = 2
    /\ Len(sleeps[p]) = 1
    /\ Len(stops) >= 1
    /\ "backoff" \in stops[1].busy

=============================================================================
